---- MODULE Spec2Model ----
(***************************************************************************)
(* repo2reel: the job pipeline controller (app.py), the text and speech    *)
(* provider selection (llm_utils.py, generate_audio.py) and the            *)
(* audio/video merger (merge_av.py).                                       *)
(*                                                                         *)
(* Python's None is the string "None".  An artifact path is its file name  *)
(* without the repo2reel_<session id>_ prefix every artifact carries.  A   *)
(* text built by an f-string is the tuple of its parts.                    *)
(***************************************************************************)
EXTENDS Integers, Sequences, FiniteSets, TLC

\* Number of session ids uuid4 can hand out in one run of the model.
MaxSessions == 2

\* Length up to which every script over Chars is tried.
MaxScriptLen == 3

\* Clock ticks a call without a timeout is followed for.
MaxWait == 20

\* Words in a section whose scene type is determined.
MaxSectionWords == 2

SessionIds == 1..MaxSessions

None == "None"

VARIABLES
    processing_status,  \* app.py: the global dict  session id -> status dict
    pc,                 \* position of each session's background thread
    audio_file,         \* local of process_repository_background
    video_file,         \* local of process_repository_background
    video_found,        \* what os.path.exists(video_file) answered in the merge
    invoked,            \* collaborators called so far by each worker, in order
    response,           \* what the last HTTP request returned
    llm,                \* an LLMProcessor and its last generate_text call
    tts,                \* an AudioGenerator and its last generate_audio call
    merger,             \* an AudioVideoMerger and its last merge_audio_video call
    generator,          \* a VideoGenerator and the scenes of its last script
    call                \* the blocking external call a job is waiting for

appVars == <<processing_status, pc, audio_file, video_file, video_found, invoked, response>>
vars == <<processing_status, pc, audio_file, video_file, video_found, invoked, response,
          llm, tts, merger, generator, call>>

-----------------------------------------------------------------------------
(* Submitted URLs: a known prefix followed by the '/'-separated rest.        *)

GithubPrefixes == {"https://github.com/", "http://github.com/"}

Urls ==
    { [prefix |-> "https://github.com/", parts |-> <<"owner", "repo">>],
      [prefix |-> "http://github.com/",  parts |-> <<"owner">>],
      [prefix |-> "",                    parts |-> <<"">>],
      [prefix |-> "https://gitlab.com/", parts |-> <<"owner", "repo">>],
      [prefix |-> "https://github.com/", parts |-> <<"owner">>],
      [prefix |-> "https://github.com/", parts |-> <<"owner", "">>],
      [prefix |-> "https://github.com/", parts |-> <<"", "repo">>] }

IsEmptyUrl(url) == url.prefix = "" /\ url.parts = <<"">>

\* variant: the owner and repository name are not looked at
ValidationError_NoPartsCheck(url) ==
    IF IsEmptyUrl(url)
        THEN "Please provide a GitHub repository URL"
    ELSE IF url.prefix \notin GithubPrefixes
        THEN "Please provide a valid GitHub repository URL"
    ELSE None

\* process_repository: the three rejections, in the order of the code.
ValidationError(url) ==
    IF IsEmptyUrl(url)
        THEN "Please provide a GitHub repository URL"
    ELSE IF url.prefix \notin GithubPrefixes
        THEN "Please provide a valid GitHub repository URL"
    ELSE IF Len(url.parts) < 2 \/ url.parts[1] = "" \/ url.parts[2] = ""
        THEN "Please provide a valid GitHub repository URL with owner and repository name"
    ELSE None

-----------------------------------------------------------------------------
(* The status dict and its updates.                                          *)

\* variant: the entry starts in a status the pipeline does not know
NewStatus_Queued(url) ==
    [ status      |-> "queued",
      progress    |-> 0,
      message     |-> <<"Initializing repository processing...">>,
      error       |-> None,
      result_file |-> None,
      github_url  |-> url ]

NewStatus(url) ==
    [ status      |-> "starting",
      progress    |-> 0,
      message     |-> <<"Initializing repository processing...">>,
      error       |-> None,
      result_file |-> None,
      github_url  |-> url ]

\* variant: the message is written, the progress is left for a later write
UpdateProgress_MessageOnly(entry, p, msg) ==
    [entry EXCEPT !.message = <<msg>>]

\* dict.update with the keys 'progress' and 'message'
UpdateProgress(entry, p, msg) ==
    [entry EXCEPT !.progress = p, !.message = <<msg>>]

\* variant: the first update writes the second stage's checkpoint
UpdateAnalyzing_WrongCheckpoint(entry) ==
    [entry EXCEPT !.status = "analyzing", !.progress = 30,
                  !.message = <<"Downloading and analyzing repository content...">>]

UpdateAnalyzing(entry) ==
    [entry EXCEPT !.status = "analyzing", !.progress = 10,
                  !.message = <<"Downloading and analyzing repository content...">>]

\* variant: the last update leaves the status alone
UpdateCompleted_NoStatus(entry, final_video) ==
    [entry EXCEPT !.progress = 100,
                  !.message = <<"Video generation completed successfully!">>,
                  !.result_file = final_video]

\* variant: the last update leaves the progress alone
UpdateCompleted_NoProgress(entry, final_video) ==
    [entry EXCEPT !.status = "completed",
                  !.message = <<"Video generation completed successfully!">>,
                  !.result_file = final_video]

\* variant: the last update does not publish the file
UpdateCompleted_NoResult(entry, final_video) ==
    [entry EXCEPT !.status = "completed", !.progress = 100,
                  !.message = <<"Video generation completed successfully!">>]

UpdateCompleted(entry, final_video) ==
    [entry EXCEPT !.status = "completed", !.progress = 100,
                  !.message = <<"Video generation completed successfully!">>,
                  !.result_file = final_video]

\* variant: the except branch closes the progress bar
UpdateError_Full(entry, error_msg) ==
    [entry EXCEPT !.status = "error", !.error = error_msg, !.progress = 100,
                  !.message = <<"Error: ", error_msg>>]

\* variant: the except branch resets the progress
UpdateError_ResetsProgress(entry, error_msg) ==
    [entry EXCEPT !.status = "error", !.error = error_msg, !.progress = 0,
                  !.message = <<"Error: ", error_msg>>]

\* variant: the except branch records the message only in 'message'
UpdateError_NoError(entry, error_msg) ==
    [entry EXCEPT !.status = "error", !.message = <<"Error: ", error_msg>>]

\* the except branch: status, error and message only
UpdateError(entry, error_msg) ==
    [entry EXCEPT !.status = "error", !.error = error_msg,
                  !.message = <<"Error: ", error_msg>>]

-----------------------------------------------------------------------------
(* llm_utils.py: LLMProcessor.                                               *)

\* the remote services in the order _determine_service asks for their keys
Providers == <<"groq", "openai", "anthropic", "together", "huggingface">>

ProviderSet == {Providers[i] : i \in 1..Len(Providers)}

\* a remote call answers 200 with a text, answers another status, or throws
RemoteOutcomes == {"ok", "http_error", "exception"}

\* the transformers pipeline works, is not installed, or throws
LocalOutcomes == {"model_ok", "import_error", "exception"}

\* variant: groq is the service whether its key is set or not
determine_service_NoKeyCheck(keys) == "groq"

\* variant: the last service whose key is set
determine_service_last(keys) ==
    IF \E i \in 1..Len(Providers) : Providers[i] \in keys
        THEN Providers[CHOOSE i \in 1..Len(Providers) :
                          /\ Providers[i] \in keys
                          /\ \A j \in (i + 1)..Len(Providers) : Providers[j] \notin keys]
        ELSE "local"

\* _determine_service: the first service whose key is set, else "local"
determine_service(keys) ==
    IF \E i \in 1..Len(Providers) : Providers[i] \in keys
        THEN Providers[CHOOSE i \in 1..Len(Providers) :
                          /\ Providers[i] \in keys
                          /\ \A j \in 1..(i - 1) : Providers[j] \notin keys]
        ELSE "local"

\* _generate_with_local: the distilgpt2 text, or the template text when the
\* import fails or anything else throws
generate_with_local(local) ==
    IF local = "model_ok" THEN "distilgpt2_text" ELSE "template_text"

\* variant: generate_text without its except branch, the service's exception
\* reaches the caller
generate_text_NoExcept(service, outcome, local) ==
    IF service = "local"
        THEN [text |-> generate_with_local(local), raised |-> None, called |-> <<"local">>]
    ELSE IF outcome[service] = "ok"
        THEN [text |-> service, raised |-> None, called |-> <<service>>]
    ELSE [text |-> None, raised |-> outcome[service], called |-> <<service>>]

\* generate_text on a processor whose service was fixed at construction:
\* outcome[p] is what a call of remote service p does, local what the local
\* pipeline does.  The result is the text, the exception that leaves the
\* method and the generators called, in order.
generate_text(service, outcome, local) ==
    IF service = "local"
        THEN [text |-> generate_with_local(local), raised |-> None, called |-> <<"local">>]
    ELSE IF outcome[service] = "ok"
        THEN [text |-> service, raised |-> None, called |-> <<service>>]
    ELSE [text |-> generate_with_local(local), raised |-> None,
          called |-> <<service, "local">>]

-----------------------------------------------------------------------------
(* generate_audio.py: AudioGenerator.                                        *)

Systems == {"windows", "darwin", "linux", "other"}

\* what _initialize_tts_engine probes for
Probed == {"win32com", "say", "espeak", "festival", "pyttsx3", "gtts"}

\* _initialize_tts_engine: the platform's engine, then the Python libraries,
\* then edge_tts
initialize_tts_engine(system, found) ==
    IF system = "windows" /\ "win32com" \in found THEN "sapi"
    ELSE IF system = "darwin" /\ "say" \in found THEN "say"
    ELSE IF system = "linux" /\ "espeak" \in found THEN "espeak"
    ELSE IF system = "linux" /\ "festival" \in found THEN "festival"
    ELSE IF "pyttsx3" \in found THEN "pyttsx3"
    ELSE IF "gtts" \in found THEN "gtts"
    ELSE "edge_tts"

Engines == {"sapi", "say", "espeak", "festival", "pyttsx3", "gtts", "edge_tts"}

\* an engine writes the .wav, leaves its native file when ffmpeg cannot
\* convert it, or throws
EngineOutcomes == {"wav", "native", "raise"}

\* the file a _generate_with_<engine> returns when it does not throw
EngineFile(engine, out) ==
    IF out = "native" /\ engine = "say" THEN "audio.aiff"
    ELSE IF out = "native" /\ engine \in {"gtts", "edge_tts"} THEN "audio.mp3"
    ELSE "audio.wav"

\* _generate_fallback_audio: ffmpeg writes silence, the wave module does when
\* ffmpeg is missing or fails, or something else throws
FallbackOutcomes == {"ffmpeg_ok", "wave_ok", "raise"}

\* the subprocesses _generate_fallback_audio starts: ffmpeg with the anullsrc
\* source comes first, whatever happens next
fallback_audio_calls == <<"ffmpeg">>

\* generate_audio: the engine fixed at construction, then the silent fallback
generate_audio(engine, out, fallback) ==
    IF out # "raise"
        THEN [raised |-> None, file |-> EngineFile(engine, out), called |-> <<engine>>,
              fallback_calls |-> <<>>]
    ELSE IF fallback # "raise"
        THEN [raised |-> None, file |-> "audio_silent.wav", called |-> <<engine, "silent">>,
              fallback_calls |-> fallback_audio_calls]
    ELSE [raised |-> "Could not generate audio file", file |-> None,
          called |-> <<engine, "silent">>, fallback_calls |-> fallback_audio_calls]

-----------------------------------------------------------------------------
(* merge_av.py: AudioVideoMerger.  Durations are in tenths of a second.      *)
(* A merge leaves the trace of the subprocesses it ran, in order, each with  *)
(* the arguments that depend on the durations.                               *)

\* what ffprobe can report for a file
Durations == {0, 80, 100, 105, 110, 120, 200, 400}

\* the None a duration probe returns when ffprobe fails, among the numbers
ProbeFailed == -1

\* a subprocess.run of ffmpeg: exit status 0, another exit status, or an
\* exception (timeout, ffmpeg missing)
RunOutcomes == {"ok", "nonzero", "exception"}

\* everything outside the merger that one merge_audio_video call meets
MergeEnvs ==
    [ video_exists : BOOLEAN,           \* os.path.exists(video_file)
      audio_exists : BOOLEAN,           \* os.path.exists(audio_file)
      Dv           : Durations \cup {ProbeFailed},   \* _get_video_duration in _merge_with_ffmpeg
      Da           : Durations \cup {ProbeFailed},   \* _get_audio_duration
      Dv2          : Durations \cup {ProbeFailed},   \* _get_video_duration in the speed adjust
      loop         : RunOutcomes,       \* the audio-loop command
      speed        : RunOutcomes,       \* the setpts command
      simple       : RunOutcomes,       \* the direct mux command
      out_exists   : BOOLEAN,           \* os.path.exists(output_file)
      verify       : BOOLEAN ]          \* _verify_video_file

Abs(x) == IF x < 0 THEN -x ELSE x

\* the subprocesses a merge can run
ProbeVideo == [cmd |-> "probe_video"]
ProbeAudio == [cmd |-> "probe_audio"]
SimpleCmd == [cmd |-> "simple"]
LoopCmd(target) == [cmd |-> "loop", t |-> target]                  \* -stream_loop -1 ... -t target
SpeedCmd(num, den) == [cmd |-> "speed", num |-> num, den |-> den]  \* setpts=PTS/(num/den)
VerifyCmd == [cmd |-> "verify"]

\* variant: _simple_merge reports success whatever ffmpeg did
simple_merge_AlwaysTrue(e, before) ==
    [ok |-> TRUE, trace |-> before \o <<SimpleCmd>>]

\* _simple_merge: True on exit status 0, False on any other and on an exception
simple_merge(e, before) ==
    [ok |-> e.simple = "ok", trace |-> before \o <<SimpleCmd>>]

\* _merge_with_audio_loop(target_duration): a non-zero exit falls back to
\* _simple_merge, an exception returns False
merge_with_audio_loop(e, target, before) ==
    LET t == before \o <<LoopCmd(target)>> IN
    IF e.loop = "ok" THEN [ok |-> TRUE, trace |-> t]
    ELSE IF e.loop = "nonzero" THEN simple_merge(e, t)
    ELSE [ok |-> FALSE, trace |-> t]

\* variant: the range test excludes its bounds
merge_with_video_speed_adjust_Strict(e, target, before) ==
    LET t == before \o <<ProbeVideo>> IN
    IF e.Dv2 = ProbeFailed THEN simple_merge(e, t)
    ELSE IF target = 0 THEN [ok |-> FALSE, trace |-> t]
    ELSE IF 2 * e.Dv2 <= target \/ e.Dv2 >= 2 * target THEN simple_merge(e, t)
    ELSE IF e.speed = "ok" THEN [ok |-> TRUE, trace |-> t \o <<SpeedCmd(e.Dv2, target)>>]
    ELSE IF e.speed = "nonzero" THEN simple_merge(e, t \o <<SpeedCmd(e.Dv2, target)>>)
    ELSE [ok |-> FALSE, trace |-> t \o <<SpeedCmd(e.Dv2, target)>>]

\* _merge_with_video_speed_adjust(target_duration): speed_factor =
\* video_duration / target_duration, rejected when < 0.5 or > 2.0
merge_with_video_speed_adjust(e, target, before) ==
    LET t == before \o <<ProbeVideo>> IN
    IF e.Dv2 = ProbeFailed THEN simple_merge(e, t)
    ELSE IF target = 0 THEN [ok |-> FALSE, trace |-> t]    \* ZeroDivisionError
    ELSE IF 2 * e.Dv2 < target \/ e.Dv2 > 2 * target THEN simple_merge(e, t)
    ELSE IF e.speed = "ok" THEN [ok |-> TRUE, trace |-> t \o <<SpeedCmd(e.Dv2, target)>>]
    ELSE IF e.speed = "nonzero" THEN simple_merge(e, t \o <<SpeedCmd(e.Dv2, target)>>)
    ELSE [ok |-> FALSE, trace |-> t \o <<SpeedCmd(e.Dv2, target)>>]

\* variant: every difference of 3.0 or more goes to the speed adjust
merge_with_ffmpeg_NoLoop(e) ==
    LET t == <<ProbeVideo, ProbeAudio>> IN
    IF e.Dv = ProbeFailed \/ e.Da = ProbeFailed THEN simple_merge(e, t)
    ELSE IF Abs(e.Dv - e.Da) < 30 THEN simple_merge(e, t)
    ELSE merge_with_video_speed_adjust(e, e.Da, t)

\* variant: only the video probe is tested for None
merge_with_ffmpeg_VideoProbeOnly(e) ==
    LET t == <<ProbeVideo, ProbeAudio>> IN
    IF e.Dv = ProbeFailed THEN simple_merge(e, t)
    ELSE IF Abs(e.Dv - e.Da) < 30 THEN simple_merge(e, t)
    ELSE IF e.Dv > e.Da THEN merge_with_audio_loop(e, e.Dv, t)
    ELSE merge_with_video_speed_adjust(e, e.Da, t)

\* variant: a difference of exactly 3.0 is still muxed directly
merge_with_ffmpeg_Inclusive(e) ==
    LET t == <<ProbeVideo, ProbeAudio>> IN
    IF e.Dv = ProbeFailed \/ e.Da = ProbeFailed THEN simple_merge(e, t)
    ELSE IF Abs(e.Dv - e.Da) <= 30 THEN simple_merge(e, t)
    ELSE IF e.Dv > e.Da THEN merge_with_audio_loop(e, e.Dv, t)
    ELSE merge_with_video_speed_adjust(e, e.Da, t)

\* _merge_with_ffmpeg: both durations are probed, then the strategy is chosen
merge_with_ffmpeg(e) ==
    LET t == <<ProbeVideo, ProbeAudio>> IN
    IF e.Dv = ProbeFailed \/ e.Da = ProbeFailed THEN simple_merge(e, t)
    ELSE IF Abs(e.Dv - e.Da) < 30 THEN simple_merge(e, t)
    ELSE IF e.Dv > e.Da THEN merge_with_audio_loop(e, e.Dv, t)
    ELSE merge_with_video_speed_adjust(e, e.Da, t)

\* the length of the file a command writes when it exits with status 0, for
\* files as long as ffprobe said: -shortest ends the direct mux with the
\* shorter stream, -t ends the audio loop at its target, setpts=PTS/(num/den)
\* stretches the video by den/num
simple_length(e) == IF e.Dv < e.Da THEN e.Dv ELSE e.Da
loop_length(step) == step.t
speed_video_length(e, step) == (e.Dv * step.den) \div step.num

\* variant: the durations are probed before the audio file is looked for
merge_audio_video_AudioUnchecked(e) ==
    IF ~e.video_exists THEN [file |-> "video", raised |-> None, trace |-> <<>>]
    ELSE LET m == merge_with_ffmpeg(e) IN
         IF ~e.audio_exists THEN [file |-> "video", raised |-> None, trace |-> m.trace]
         ELSE IF m.ok /\ e.out_exists
             THEN IF e.verify
                      THEN [file |-> "output", raised |-> None, trace |-> m.trace \o <<VerifyCmd>>]
                      ELSE [file |-> "video", raised |-> None, trace |-> m.trace \o <<VerifyCmd>>]
             ELSE [file |-> "video", raised |-> None, trace |-> m.trace]

\* variant: the merged file is returned without being verified
merge_audio_video_Unverified(e) ==
    IF ~e.video_exists THEN [file |-> "video", raised |-> None, trace |-> <<>>]
    ELSE IF ~e.audio_exists THEN [file |-> "video", raised |-> None, trace |-> <<>>]
    ELSE LET m == merge_with_ffmpeg(e) IN
         IF m.ok /\ e.out_exists
             THEN [file |-> "output", raised |-> None, trace |-> m.trace]
             ELSE [file |-> "video", raised |-> None, trace |-> m.trace]

\* AudioVideoMerger.merge_audio_video and the module function around it: the
\* FileNotFoundError raised for a missing video is caught by the method's
\* own except, which returns video_file; nothing else can raise past the
\* helpers' own excepts.  file is "output" or "video".
merge_audio_video(e) ==
    IF ~e.video_exists THEN [file |-> "video", raised |-> None, trace |-> <<>>]
    ELSE IF ~e.audio_exists THEN [file |-> "video", raised |-> None, trace |-> <<>>]
    ELSE LET m == merge_with_ffmpeg(e) IN
         IF m.ok /\ e.out_exists
             THEN IF e.verify
                      THEN [file |-> "output", raised |-> None, trace |-> m.trace \o <<VerifyCmd>>]
                      ELSE [file |-> "video", raised |-> None, trace |-> m.trace \o <<VerifyCmd>>]
             ELSE [file |-> "video", raised |-> None, trace |-> m.trace]

\* the files a merge can return, by whether the video file exists
MergeFiles ==
    [found \in BOOLEAN |->
        {merge_audio_video(e).file : e \in {x \in MergeEnvs : x.video_exists = found}}]

-----------------------------------------------------------------------------
(* Python strings, as generate_video.py uses them.  A string is the sequence *)
(* of its characters; "NL" is the newline.                                   *)

Whitespace == {" ", "NL"}
Digits == {"1"}

\* c in s
Contains(s, c) == \E i \in 1..Len(s) : s[i] = c

\* the members of a set of positions, in increasing order
Ascending(s, positions) ==
    SelectSeq([i \in 1..Len(s) |-> i], LAMBDA i : i \in positions)

\* s.strip()
Strip(s) ==
    LET solid == {i \in 1..Len(s) : s[i] \notin Whitespace} IN
    IF solid = {} THEN <<>>
    ELSE SubSeq(s, CHOOSE i \in solid : \A j \in solid : i <= j,
                   CHOOSE i \in solid : \A j \in solid : i >= j)

\* where str.split(sep) cuts, for a separator of one or two characters:
\* the occurrences of sep from left to right, none overlapping the one
\* taken before it
Cuts(s, sep) ==
    LET raw == {i \in 1..(Len(s) - Len(sep) + 1) : SubSeq(s, i, i + Len(sep) - 1) = sep}
        runStart(i) == CHOOSE j \in 1..i :
                           /\ \A k \in j..i : k \in raw
                           /\ j = 1 \/ (j - 1) \notin raw
    IN  IF Len(sep) = 1 THEN raw
        ELSE {i \in raw : (i - runStart(i)) % 2 = 0}

\* s.split(sep)
SplitOn(s, sep) ==
    LET at == Ascending(s, Cuts(s, sep))
        n == Len(at) IN
    [k \in 1..(n + 1) |->
        SubSeq(s, IF k = 1 THEN 1 ELSE at[k - 1] + Len(sep),
                  IF k = n + 1 THEN Len(s) ELSE at[k] - 1)]

\* s.split(): the maximal runs of characters that are not whitespace
SplitWords(s) ==
    LET starts == {i \in 1..Len(s) :
                      s[i] \notin Whitespace /\ (i = 1 \/ s[i - 1] \in Whitespace)}
        at == Ascending(s, starts)
        end(i) == CHOOSE j \in i..Len(s) :
                      /\ j = Len(s) \/ s[j + 1] \in Whitespace
                      /\ \A k \in i..(j - 1) : s[k + 1] \notin Whitespace
    IN  [k \in 1..Len(at) |-> SubSeq(s, at[k], end(at[k]))]

RECURSIVE Join(_, _)
\* sep.join(parts), one half after the other
Join(parts, sep) ==
    IF parts = <<>> THEN <<>>
    ELSE IF Len(parts) = 1 THEN parts[1]
    ELSE LET half == Len(parts) \div 2 IN
         Join(SubSeq(parts, 1, half), sep) \o sep
             \o Join(SubSeq(parts, half + 1, Len(parts)), sep)

\* range(0, n, step), as positions counted from 1
Range(n, step) == [k \in 1..((n + step - 1) \div step) |-> (k - 1) * step + 1]

Max(a, b) == IF a > b THEN a ELSE b
Min(a, b) == IF a < b THEN a ELSE b

-----------------------------------------------------------------------------
(* generate_video.py: the script's sections and scenes.  A time is a         *)
(* fraction num/den of fifths of a second, 0.4 s being two fifths.           *)

\* the loop of lines 117-123: a line with '[', ']' and a digit closes the
\* section before it and opens its own
RECURSIVE MarkerLoop(_, _, _)
MarkerLoop(lines, current_section, sections) ==
    IF lines = <<>> THEN [current_section |-> current_section, sections |-> sections]
    ELSE LET line == Head(lines) IN
         IF /\ Contains(line, "[") /\ Contains(line, "]")
            /\ \E i \in 1..Len(line) : line[i] \in Digits
             THEN MarkerLoop(Tail(lines), line \o <<"NL">>,
                             IF Strip(current_section) # <<>>
                                 THEN Append(sections, Strip(current_section))
                                 ELSE sections)
             ELSE MarkerLoop(Tail(lines), current_section \o line \o <<"NL">>, sections)

\* lines 112-126: the sections the timing markers give
marker_sections(script) ==
    LET r == MarkerLoop(SplitOn(script, <<"NL">>), <<>>, <<>>) IN
    IF Strip(r.current_section) # <<>>
        THEN Append(r.sections, Strip(r.current_section))
        ELSE r.sections

\* variant: each group takes the first item of the next group too
grouped_Overlap(items, section_size, sep) ==
    LET starts == Range(Len(items), section_size)
        all == [k \in 1..Len(starts) |->
                   Join(SubSeq(items, starts[k],
                               Min(starts[k] + section_size, Len(items))), sep)]
    IN  SelectSeq(all, LAMBDA section : section # <<>>)

\* lines 139-146 and 151-157: the items taken section_size at a time and
\* joined, the empty joins left out
grouped(items, section_size, sep) ==
    LET starts == Range(Len(items), section_size)
        all == [k \in 1..Len(starts) |->
                   Join(SubSeq(items, starts[k],
                               Min(starts[k] + section_size - 1, Len(items))), sep)]
    IN  SelectSeq(all, LAMBDA section : section # <<>>)

\* variant: the paragraphs are looked for before the timing markers
split_script_into_sections_ParagraphsFirst(script) ==
    LET marked == IF Contains(script, "[") /\ Contains(script, "]")
                      THEN marker_sections(script) ELSE <<>>
        paragraphs == SplitOn(script, <<"NL", "NL">>)
        sentences == SplitOn(script, <<".", " ">>)
        words == SplitWords(script)
    IN  IF Len(paragraphs) > 1
            THEN LET stripped == [k \in 1..Len(paragraphs) |-> Strip(paragraphs[k])] IN
                 SelectSeq(stripped, LAMBDA p : p # <<>>)
        ELSE IF Len(marked) >= 2 THEN marked
        ELSE IF Len(sentences) > 4
            THEN grouped(sentences, Max(Len(sentences) \div 4, 1), <<".", " ">>)
        ELSE IF Len(words) > 40
            THEN grouped(words, Max(Len(words) \div 4, 20), <<" ">>)
        ELSE IF script # <<>> THEN <<script>>
        ELSE <<<<"Repository Overview">>>>

\* variant: the whole text is returned without its outer white space
split_script_into_sections_Stripped(script) ==
    LET marked == IF Contains(script, "[") /\ Contains(script, "]")
                      THEN marker_sections(script) ELSE <<>>
        paragraphs == SplitOn(script, <<"NL", "NL">>)
        sentences == SplitOn(script, <<".", " ">>)
        words == SplitWords(script)
    IN  IF Len(marked) >= 2 THEN marked
        ELSE IF Len(paragraphs) > 1
            THEN LET stripped == [k \in 1..Len(paragraphs) |-> Strip(paragraphs[k])] IN
                 SelectSeq(stripped, LAMBDA p : p # <<>>)
        ELSE IF Len(sentences) > 4
            THEN grouped(sentences, Max(Len(sentences) \div 4, 1), <<".", " ">>)
        ELSE IF Len(words) > 40
            THEN grouped(words, Max(Len(words) \div 4, 20), <<" ">>)
        ELSE IF script # <<>> THEN <<Strip(script)>>
        ELSE <<<<"Repository Overview">>>>

\* _split_script_into_sections
split_script_into_sections(script) ==
    LET marked == IF Contains(script, "[") /\ Contains(script, "]")
                      THEN marker_sections(script) ELSE <<>>
        paragraphs == SplitOn(script, <<"NL", "NL">>)
        sentences == SplitOn(script, <<".", " ">>)
        words == SplitWords(script)
    IN  IF Len(marked) >= 2 THEN marked
        ELSE IF Len(paragraphs) > 1
            THEN LET stripped == [k \in 1..Len(paragraphs) |-> Strip(paragraphs[k])] IN
                 SelectSeq(stripped, LAMBDA p : p # <<>>)
        ELSE IF Len(sentences) > 4
            THEN grouped(sentences, Max(Len(sentences) \div 4, 1), <<".", " ">>)
        ELSE IF Len(words) > 40
            THEN grouped(words, Max(Len(words) \div 4, 20), <<" ">>)
        ELSE IF script # <<>> THEN <<script>>
        ELSE <<<<"Repository Overview">>>>

\* variant: the duration without the ceiling of line 31
video_duration_NoCeiling(script) == Max(2 * Len(SplitWords(script)), 150)

\* generate_video, lines 29-31: words * 0.4 kept between 30 and 300 seconds
video_duration(script) == Min(Max(2 * Len(SplitWords(script)), 150), 1500)

\* the colours of lines 67-76, by position
NumColors == 8

\* section[:150] + '...' if len(section) > 150 else section
scene_text(section) ==
    IF Len(section) > 150 THEN SubSeq(section, 1, 150) \o <<".", ".", ".">> ELSE section

\* variant: the scenes are numbered from 1
create_scenes_FromOne(script, duration) ==
    LET script_sections == split_script_into_sections(script)
        n == Len(script_sections) IN
    IF n = 0
        THEN << [ duration   |-> [num |-> duration, den |-> 1],
                  text       |-> SubSeq(script, 1, Min(200, Len(script))),
                  color      |-> 0,
                  start_time |-> [num |-> 0, den |-> 1] ] >>
        ELSE [i \in 1..n |->
                 [ duration   |-> [num |-> duration, den |-> n],
                   text       |-> scene_text(script_sections[i]),
                   color      |-> (i - 1) % NumColors,
                   start_time |-> [num |-> i * duration, den |-> n] ]]

\* _create_scenes: scene_duration = duration / len(script_sections), scene i
\* (from 0) starts at i * scene_duration; with no section the division
\* raises and the except branch returns one scene of the whole duration
create_scenes(script, duration) ==
    LET script_sections == split_script_into_sections(script)
        n == Len(script_sections) IN
    IF n = 0
        THEN << [ duration   |-> [num |-> duration, den |-> 1],
                  text       |-> SubSeq(script, 1, Min(200, Len(script))),
                  color      |-> 0,
                  start_time |-> [num |-> 0, den |-> 1] ] >>
        ELSE [i \in 1..n |->
                 [ duration   |-> [num |-> duration, den |-> n],
                   text       |-> scene_text(script_sections[i]),
                   color      |-> (i - 1) % NumColors,
                   start_time |-> [num |-> (i - 1) * duration, den |-> n] ]]

\* str.lower() on the words of the model
Lower(word) ==
    IF word = "Welcome" THEN "welcome"
    ELSE IF word = "Flask" THEN "flask"
    ELSE word

\* the keyword lists of _determine_scene_type
TitleWords == {"welcome", "introduction", "hello", "today", "overview"}
FeatureWords == {"feature", "functionality", "capability", "includes"}
CodeWords == {"code", "implementation", "architecture", "technical"}
ConclusionWords == {"conclusion", "summary", "thank", "explore"}

\* word in section_lower, a section being the sequence of its words
InSection(word, section_lower) ==
    \E i \in 1..Len(section_lower) : section_lower[i] = word

\* variant: the technology names are looked for before the feature words
determine_scene_type_TechFirst(section, technologies) ==
    LET section_lower == [i \in 1..Len(section) |-> Lower(section[i])] IN
    IF \E word \in TitleWords : InSection(word, section_lower) THEN "title"
    ELSE IF \E k \in 1..Len(technologies) : InSection(Lower(technologies[k]), section_lower)
        THEN "technology"
    ELSE IF \E word \in FeatureWords : InSection(word, section_lower) THEN "features"
    ELSE IF \E word \in CodeWords : InSection(word, section_lower) THEN "code"
    ELSE IF \E word \in ConclusionWords : InSection(word, section_lower) THEN "conclusion"
    ELSE "content"

\* _determine_scene_type: the if/elif chain over the lowered section
determine_scene_type(section, technologies) ==
    LET section_lower == [i \in 1..Len(section) |-> Lower(section[i])] IN
    IF \E word \in TitleWords : InSection(word, section_lower) THEN "title"
    ELSE IF \E word \in FeatureWords : InSection(word, section_lower) THEN "features"
    ELSE IF \E k \in 1..Len(technologies) : InSection(Lower(technologies[k]), section_lower)
        THEN "technology"
    ELSE IF \E word \in CodeWords : InSection(word, section_lower) THEN "code"
    ELSE IF \E word \in ConclusionWords : InSection(word, section_lower) THEN "conclusion"
    ELSE "content"

\* the words a classified section is made of: keywords of each list, a
\* technology name, a capitalised keyword and a word of no list
SectionWords == {"Welcome", "today", "feature", "flask", "code", "summary", "word"}

\* the sections whose type is determined, and repo_analysis['technologies']
TypedSections == UNION {[1..k -> SectionWords] : k \in 0..MaxSectionWords}
TechnologyLists == {<<>>, <<"Flask">>, <<"Python", "Flask">>}

\* the characters the splitting looks at, and a letter
Chars == {"a", "1", " ", "NL", ".", "[", "]"}

\* k copies of w with sep between them, k >= 1
Repeat(w, k, sep) ==
    LET period == Len(w) + Len(sep) IN
    [i \in 1..(k * period - Len(sep)) |->
        LET j == ((i - 1) % period) + 1 IN
        IF j <= Len(w) THEN w[j] ELSE sep[j - Len(w)]]

\* the scripts generate_text can hand to the video generator: every short
\* one, and long ones of each shape the splitting tells apart
Scripts ==
    UNION {[1..k -> Chars] : k \in 0..MaxScriptLen}
    \cup {Repeat(<<"a">>, k, <<" ">>) : k \in {40, 41, 45, 74, 75, 76, 80, 100, 749, 750, 751, 800}}
    \cup {Repeat(<<"a">>, k, <<".", " ">>) : k \in {4, 5, 6, 9, 50}}
    \cup {Repeat(<<"a">>, k, <<".", " ">>) \o <<".", " ">> : k \in {4, 8}}
    \cup {<<"a", ".", " ", ".", " ">> \o Repeat(<<"a">>, 3, <<".", " ">>)}
    \cup {Repeat(<<"a">>, k, <<"NL", "NL">>) : k \in {2, 3, 10}}
    \cup {Repeat(<<"[", "1", "]", " ", "a">>, k, <<"NL">>) : k \in {1, 2, 4}}
    \cup {<<"a", "NL">> \o Repeat(<<"[", "1", "]", " ", "a">>, k, <<"NL">>) : k \in {1, 2}}
    \cup {<<"[", "1", "]", " ", "a", "NL", "NL", "a">> \o tail :
              tail \in {<<>>, <<"NL", "[", "1", "]", " ", "a">>}}
    \cup {<<"NL", "NL", " ", "NL", "NL">>, <<".", " ", ".", " ", ".", " ", ".", " ">>}

-----------------------------------------------------------------------------
(* generate_video.py and graph_rag.py, as the controller sees them.          *)

\* generate_video, then _generate_fallback_video when it throws
generate_video(main, fallback) ==
    IF main = "ok" THEN [raised |-> None, file |-> "video.mp4"]
    ELSE IF fallback = "ok" THEN [raised |-> None, file |-> "video_fallback.mp4"]
    ELSE [raised |-> "Could not generate video", file |-> None]

\* GraphRAGProcessor.analyze_repository: the structured data, or one
\* exception wrapping whatever went wrong
analyze_repository(ok) ==
    IF ok THEN [raised |-> None]
    ELSE [raised |-> "Failed to analyze repository: Failed to download repository: No accessible branches found"]

\* what the calls of one worker can return
ScriptTexts ==
    {generate_text(determine_service(k), o, l).text :
        k \in SUBSET ProviderSet, o \in [ProviderSet -> RemoteOutcomes], l \in LocalOutcomes}

AudioResults ==
    {[raised |-> r.raised, file |-> r.file] :
        r \in {generate_audio(initialize_tts_engine(sys, f), o, fb) :
                   sys \in Systems, f \in SUBSET Probed,
                   o \in EngineOutcomes, fb \in FallbackOutcomes}}

VideoResults == {generate_video(m, f) : m \in {"ok", "raise"}, f \in {"ok", "raise"}}

\* the path merge_audio_video returns
MergedPath(file, video) == IF file = "output" THEN "final.mp4" ELSE video

-----------------------------------------------------------------------------
(* app.py: the request handlers.                                             *)

NoResponse == [kind |-> "none"]

\* variant: the update lands in every session's dict
Set_All(s, entry) == [t \in DOMAIN processing_status |-> entry]

\* processing_status[session_id].update(...): the dict of session s alone
Set(s, entry) == [processing_status EXCEPT ![s] = entry]

\* variant: the same id is handed out again
uuid4_Reused == CHOOSE id \in SessionIds : \A other \in SessionIds : id <= other

\* uuid.uuid4(): an id no session has; ids are opaque, so the model hands
\* them out in increasing order
uuid4 == CHOOSE id \in SessionIds \ DOMAIN processing_status :
             \A other \in SessionIds \ DOMAIN processing_status : id <= other

\* POST /process with an accepted URL: the status dict is stored under a new
\* id, the thread is started, the redirect carries the id
SubmitAccepted(url) ==
    /\ ValidationError(url) = None
    /\ SessionIds \ DOMAIN processing_status # {}
    /\ LET id == uuid4 IN
          /\ processing_status' =
                 [s \in DOMAIN processing_status \cup {id} |->
                     IF s = id THEN NewStatus(url) ELSE processing_status[s]]
          /\ pc' = [pc EXCEPT ![id] = "start"]
          /\ response' = [kind |-> "redirect", to |-> "processing",
                          session_id |-> id, flash |-> None]
    /\ UNCHANGED <<audio_file, video_file, video_found, invoked>>

\* POST /process with a rejected URL: flash and redirect to the index
SubmitRejected(url) ==
    /\ ValidationError(url) # None
    /\ response' = [kind |-> "redirect", to |-> "index",
                    session_id |-> None, flash |-> ValidationError(url)]
    /\ UNCHANGED <<processing_status, pc, audio_file, video_file, video_found, invoked>>

process_repository == \E url \in Urls : SubmitAccepted(url) \/ SubmitRejected(url)

\* GET /: clean_old_files removes old files and directories under the temp
\* directory, then the form is rendered
index ==
    /\ response' = [kind |-> "page", name |-> "index"]
    /\ UNCHANGED <<processing_status, pc, audio_file, video_file, video_found, invoked>>

\* variant: every id is answered as an unknown one
get_status_AlwaysNotFound(id) ==
    /\ response' = [kind |-> "json", code |-> 404, session_id |-> id,
                    body |-> [error |-> "Invalid session ID"]]
    /\ UNCHANGED <<processing_status, pc, audio_file, video_file, video_found, invoked>>

\* GET /status/<session_id>; the response is kept with the id it was asked for
get_status(id) ==
    /\ response' = IF id \in DOMAIN processing_status
                       THEN [kind |-> "json", code |-> 200, session_id |-> id,
                             body |-> processing_status[id]]
                       ELSE [kind |-> "json", code |-> 404, session_id |-> id,
                             body |-> [error |-> "Invalid session ID"]]
    /\ UNCHANGED <<processing_status, pc, audio_file, video_file, video_found, invoked>>

-----------------------------------------------------------------------------
(* app.py: process_repository_background, one action per blocking call.     *)

\* variant: the exception is recorded and the thread carries on
Fail_KeepsRunning(s, error_msg) ==
    /\ processing_status' = Set(s, UpdateError(processing_status[s], error_msg))
    /\ UNCHANGED <<pc, audio_file, video_file>>

\* variant: the exception is recorded and the thread goes on with the stage
\* after the one that failed
Fail_Continues(s, error_msg) ==
    /\ processing_status' = Set(s, UpdateError(processing_status[s], error_msg))
    /\ pc' = [pc EXCEPT ![s] = IF pc[s] = "analyze" THEN "script"
                               ELSE IF pc[s] = "audio" THEN "video" ELSE "merge"]
    /\ UNCHANGED <<audio_file, video_file>>

\* the except branch; the thread ends and its locals with it
Fail(s, error_msg) ==
    /\ processing_status' = Set(s, UpdateError(processing_status[s], error_msg))
    /\ pc' = [pc EXCEPT ![s] = "done"]
    /\ audio_file' = [audio_file EXCEPT ![s] = None]
    /\ video_file' = [video_file EXCEPT ![s] = None]

\* variant: the thread goes to the analysis without the first update
Start_NoUpdate(s) ==
    /\ pc[s] = "start"
    /\ pc' = [pc EXCEPT ![s] = "analyze"]
    /\ UNCHANGED <<processing_status, audio_file, video_file, video_found, invoked, response>>

\* the first update, before any call
Start(s) ==
    /\ pc[s] = "start"
    /\ processing_status' = Set(s, UpdateAnalyzing(processing_status[s]))
    /\ pc' = [pc EXCEPT ![s] = "analyze"]
    /\ UNCHANGED <<audio_file, video_file, video_found, invoked, response>>

\* graph_rag.analyze_repository, then the update to 30
Analyze(s) ==
    /\ pc[s] = "analyze"
    /\ invoked' = [invoked EXCEPT ![s] = Append(@, "analyze_repository")]
    /\ \E ok \in BOOLEAN :
          LET r == analyze_repository(ok) IN
          IF r.raised # None
              THEN Fail(s, r.raised)
              ELSE /\ processing_status' = Set(s, UpdateProgress(processing_status[s], 30,
                          "Generating video script from repository analysis..."))
                   /\ pc' = [pc EXCEPT ![s] = "script"]
                   /\ UNCHANGED <<audio_file, video_file>>
    /\ UNCHANGED <<video_found, response>>

\* llm_processor.generate_text, which returns a text whatever happens, then
\* the update to 50
Script(s) ==
    /\ pc[s] = "script"
    /\ invoked' = [invoked EXCEPT ![s] = Append(@, "generate_text")]
    /\ \E video_script \in ScriptTexts :
          /\ processing_status' = Set(s, UpdateProgress(processing_status[s], 50,
                 "Creating audio narration from script..."))
          /\ pc' = [pc EXCEPT ![s] = "audio"]
    /\ UNCHANGED <<audio_file, video_file, video_found, response>>

\* generate_audio_from_text, then the update to 70
Audio(s) ==
    /\ pc[s] = "audio"
    /\ invoked' = [invoked EXCEPT ![s] = Append(@, "generate_audio_from_text")]
    /\ \E r \in AudioResults :
          IF r.raised # None
              THEN Fail(s, r.raised)
              ELSE /\ processing_status' = Set(s, UpdateProgress(processing_status[s], 70,
                          "Generating video content and visuals..."))
                   /\ pc' = [pc EXCEPT ![s] = "video"]
                   /\ audio_file' = [audio_file EXCEPT ![s] = r.file]
                   /\ UNCHANGED video_file
    /\ UNCHANGED <<video_found, response>>

\* variant: the path of the video is stored in audio_file too
Video_OverwritesAudio(s) ==
    /\ pc[s] = "video"
    /\ invoked' = [invoked EXCEPT ![s] = Append(@, "generate_video_from_script")]
    /\ \E r \in VideoResults :
          IF r.raised # None
              THEN Fail(s, r.raised)
              ELSE /\ processing_status' = Set(s, UpdateProgress(processing_status[s], 90,
                          "Merging audio and video components..."))
                   /\ pc' = [pc EXCEPT ![s] = "merge"]
                   /\ video_file' = [video_file EXCEPT ![s] = r.file]
                   /\ audio_file' = [audio_file EXCEPT ![s] = r.file]
    /\ UNCHANGED <<video_found, response>>

\* generate_video_from_script, then the update to 90
Video(s) ==
    /\ pc[s] = "video"
    /\ invoked' = [invoked EXCEPT ![s] = Append(@, "generate_video_from_script")]
    /\ \E r \in VideoResults :
          IF r.raised # None
              THEN Fail(s, r.raised)
              ELSE /\ processing_status' = Set(s, UpdateProgress(processing_status[s], 90,
                          "Merging audio and video components..."))
                   /\ pc' = [pc EXCEPT ![s] = "merge"]
                   /\ video_file' = [video_file EXCEPT ![s] = r.file]
                   /\ UNCHANGED audio_file
    /\ UNCHANGED <<video_found, response>>

\* merge_audio_video, which returns a path whatever happens, then the last
\* update; the thread ends
Merge(s) ==
    /\ pc[s] = "merge"
    /\ invoked' = [invoked EXCEPT ![s] = Append(@, "merge_audio_video")]
    /\ \E found \in BOOLEAN :
          /\ video_found' = [x \in DOMAIN video_found \cup {s} |->
                                IF x = s THEN found ELSE video_found[x]]
          /\ \E file \in MergeFiles[found] :
                processing_status' = Set(s, UpdateCompleted(processing_status[s],
                                            MergedPath(file, video_file[s])))
    /\ pc' = [pc EXCEPT ![s] = "done"]
    /\ audio_file' = [audio_file EXCEPT ![s] = None]
    /\ video_file' = [video_file EXCEPT ![s] = None]
    /\ UNCHANGED response

Worker(s) == Start(s) \/ Analyze(s) \/ Script(s) \/ Audio(s) \/ Video(s) \/ Merge(s)

-----------------------------------------------------------------------------

(* One worker's two capability calls, as lines 116-144 of app.py make them:  *)
(* an LLMProcessor is built and asked for a text, an AudioGenerator is      *)
(* built and asked for a file.  The object not in use is idle.              *)

LlmIdle == [state |-> "none"]
TtsIdle == [state |-> "none"]

\* LLMProcessor(): the keys found in the environment fix the service
LLMProcessor(keys) ==
    /\ llm.state = "none" /\ tts.state # "built"
    /\ llm' = [state |-> "built", keys |-> keys, service |-> determine_service(keys)]
    /\ tts' = TtsIdle
    /\ UNCHANGED <<appVars, merger, generator, call>>

\* llm_processor.generate_text(prompt, max_length)
GenerateText(outcome, local) ==
    /\ llm.state = "built"
    /\ LET r == generate_text(llm.service, outcome, local) IN
          llm' = [state |-> "returned", keys |-> llm.keys, service |-> llm.service,
                  outcome |-> outcome, local |-> local,
                  text |-> r.text, raised |-> r.raised, called |-> r.called]
    /\ UNCHANGED <<tts, appVars, merger, generator, call>>

\* AudioGenerator(): the platform and what is installed fix the engine
AudioGenerator(system, found) ==
    /\ tts.state = "none" /\ llm.state # "built"
    /\ tts' = [state |-> "built", system |-> system, found |-> found,
               engine |-> initialize_tts_engine(system, found)]
    /\ llm' = LlmIdle
    /\ UNCHANGED <<appVars, merger, generator, call>>

\* generator.generate_audio(text, session_id): works[e] says whether engine e
\* would produce a file if it were called
GenerateAudio(works, native, fallback) ==
    /\ tts.state = "built"
    /\ LET out == IF ~works[tts.engine] THEN "raise"
                  ELSE IF native THEN "native" ELSE "wav"
           r == generate_audio(tts.engine, out, fallback) IN
          tts' = [state |-> "returned", system |-> tts.system, found |-> tts.found,
                  engine |-> tts.engine, works |-> works,
                  raised |-> r.raised, file |-> r.file, called |-> r.called,
                  fallback_calls |-> r.fallback_calls]
    /\ UNCHANGED <<llm, appVars, merger, generator, call>>

(* merge_av.py: one AudioVideoMerger per call of the module's                *)
(* merge_audio_video, as line 284 builds it.                                 *)

MergerIdle == [state |-> "none"]

\* AudioVideoMerger()
AudioVideoMerger ==
    /\ merger.state # "built"
    /\ merger' = [state |-> "built"]
    /\ UNCHANGED <<appVars, llm, tts, generator, call>>

\* merger.merge_audio_video(video_file, audio_file, session_id) in the
\* surroundings e
MergeAudioVideo(e) ==
    /\ merger.state = "built"
    /\ LET r == merge_audio_video(e) IN
          merger' = [state |-> "returned", env |-> e,
                     file |-> r.file, raised |-> r.raised, trace |-> r.trace]
    /\ UNCHANGED <<appVars, llm, tts, generator, call>>

(* generate_video.py: one VideoGenerator per script, as line 1068 builds it. *)

GeneratorIdle == [state |-> "none"]

\* VideoGenerator()
VideoGenerator ==
    /\ generator.state # "built"
    /\ generator' = [state |-> "built"]
    /\ UNCHANGED <<appVars, llm, tts, merger, call>>

\* generate_video up to line 36: the duration from the word count, then the
\* scenes
GenerateScenes(script) ==
    /\ generator.state = "built"
    /\ LET duration == video_duration(script) IN
          generator' = [state |-> "returned", script |-> script, duration |-> duration,
                        script_sections |-> split_script_into_sections(script),
                        scenes |-> create_scenes(script, duration)]
    /\ UNCHANGED <<appVars, llm, tts, merger, call>>

(* The blocking external calls of a job: every subprocess.run and every     *)
(* requests call on the path of process_repository_background, with the     *)
(* timeout keyword it is made with (<<>> when the call has none).           *)

CallSites ==
    { [stage |-> "analysis", file |-> "graph_rag.py",      line |-> 66,   timeout |-> <<30>>],
      [stage |-> "analysis", file |-> "graph_rag.py",      line |-> 117,  timeout |-> <<120>>],
      [stage |-> "text",     file |-> "llm_utils.py",      line |-> 79,   timeout |-> <<60>>],
      [stage |-> "text",     file |-> "llm_utils.py",      line |-> 110,  timeout |-> <<60>>],
      [stage |-> "text",     file |-> "llm_utils.py",      line |-> 141,  timeout |-> <<60>>],
      [stage |-> "text",     file |-> "llm_utils.py",      line |-> 172,  timeout |-> <<60>>],
      [stage |-> "text",     file |-> "llm_utils.py",      line |-> 213,  timeout |-> <<60>>],
      [stage |-> "speech",   file |-> "generate_audio.py", line |-> 35,   timeout |-> <<>>],
      [stage |-> "speech",   file |-> "generate_audio.py", line |-> 42,   timeout |-> <<>>],
      [stage |-> "speech",   file |-> "generate_audio.py", line |-> 46,   timeout |-> <<>>],
      [stage |-> "speech",   file |-> "generate_audio.py", line |-> 158,  timeout |-> <<>>],
      [stage |-> "speech",   file |-> "generate_audio.py", line |-> 169,  timeout |-> <<>>],
      [stage |-> "speech",   file |-> "generate_audio.py", line |-> 187,  timeout |-> <<>>],
      [stage |-> "speech",   file |-> "generate_audio.py", line |-> 212,  timeout |-> <<>>],
      [stage |-> "speech",   file |-> "generate_audio.py", line |-> 278,  timeout |-> <<>>],
      [stage |-> "speech",   file |-> "generate_audio.py", line |-> 313,  timeout |-> <<120>>],
      [stage |-> "speech",   file |-> "generate_audio.py", line |-> 323,  timeout |-> <<>>],
      [stage |-> "speech",   file |-> "generate_audio.py", line |-> 345,  timeout |-> <<>>],
      [stage |-> "render",   file |-> "generate_video.py", line |-> 1008, timeout |-> <<600>>],
      [stage |-> "render",   file |-> "generate_video.py", line |-> 1053, timeout |-> <<120>>],
      [stage |-> "merge",    file |-> "merge_av.py",       line |-> 189,  timeout |-> <<30>>],
      [stage |-> "merge",    file |-> "merge_av.py",       line |-> 214,  timeout |-> <<30>>],
      [stage |-> "merge",    file |-> "merge_av.py",       line |-> 92,   timeout |-> <<300>>],
      [stage |-> "merge",    file |-> "merge_av.py",       line |-> 123,  timeout |-> <<300>>],
      [stage |-> "merge",    file |-> "merge_av.py",       line |-> 165,  timeout |-> <<300>>],
      [stage |-> "merge",    file |-> "merge_av.py",       line |-> 238,  timeout |-> <<30>>] }

\* seconds in a tick of the clock: the smallest timeout in the code
TickSeconds == 30

NoCall == [state |-> "none"]

\* subprocess.run(...) or requests.get/post(...) at a call site: the caller
\* blocks
IssueCall(site) ==
    /\ call.state # "running"
    /\ call' = [state |-> "running", site |-> site, elapsed |-> 0]
    /\ UNCHANGED <<appVars, llm, tts, merger, generator>>

\* the child or the peer has not answered yet
Tick ==
    /\ call.state = "running"
    /\ IF call.site.timeout = <<>>
           THEN call.elapsed < MaxWait * TickSeconds
           ELSE call.elapsed < call.site.timeout[1]
    /\ call' = [call EXCEPT !.elapsed = @ + TickSeconds]
    /\ UNCHANGED <<appVars, llm, tts, merger, generator>>

\* the call comes back on its own, with a result or with an exception
ReturnCall(outcome) ==
    /\ call.state = "running"
    /\ call' = [call EXCEPT !.state = outcome]
    /\ UNCHANGED <<appVars, llm, tts, merger, generator>>

\* the timeout runs out: subprocess.TimeoutExpired or requests.Timeout is
\* raised in the caller
ExpireCall ==
    /\ call.state = "running"
    /\ call.site.timeout # <<>>
    /\ call.elapsed >= call.site.timeout[1]
    /\ call' = [call EXCEPT !.state = "timed_out"]
    /\ UNCHANGED <<appVars, llm, tts, merger, generator>>

\* self._determine_scene_type(section, technologies), as line 81 calls it
DetermineSceneType(section, technologies) ==
    /\ generator.state = "built"
    /\ generator' = [state |-> "typed", section |-> section, technologies |-> technologies,
                     type |-> determine_scene_type(section, technologies)]
    /\ UNCHANGED <<appVars, llm, tts, merger, call>>

InitApp ==
    /\ processing_status = <<>>
    /\ pc = [s \in SessionIds |-> "none"]
    /\ audio_file = [s \in SessionIds |-> None]
    /\ video_file = [s \in SessionIds |-> None]
    /\ video_found = <<>>
    /\ invoked = [s \in SessionIds |-> <<>>]
    /\ response = NoResponse

InitCascade == llm = LlmIdle /\ tts = TtsIdle

InitMerge == merger = MergerIdle

InitScenes == generator = GeneratorIdle

InitCall == call = NoCall

Init == InitApp /\ InitCascade /\ InitMerge /\ InitScenes /\ InitCall

\* a step of session s's thread
WorkerStep(s) == Worker(s) /\ UNCHANGED <<llm, tts, merger, generator, call>>

Next ==
    \/ index /\ UNCHANGED <<llm, tts, merger, generator, call>>
    \/ process_repository /\ UNCHANGED <<llm, tts, merger, generator, call>>
    \/ \E id \in SessionIds : get_status(id) /\ UNCHANGED <<llm, tts, merger, generator, call>>
    \/ \E s \in SessionIds : WorkerStep(s)

Spec == Init /\ [][Next]_vars

\* each session's thread is scheduled again and again, and every call it
\* makes returns or raises
FairSpec == Spec /\ \A s \in SessionIds : WF_vars(WorkerStep(s))

NextCascade ==
    \/ \E keys \in SUBSET ProviderSet : LLMProcessor(keys)
    \/ \E outcome \in [ProviderSet -> RemoteOutcomes], local \in LocalOutcomes :
          GenerateText(outcome, local)
    \/ \E system \in Systems, found \in SUBSET Probed : AudioGenerator(system, found)
    \/ \E works \in [Engines -> BOOLEAN], native \in BOOLEAN, fallback \in FallbackOutcomes :
          GenerateAudio(works, native, fallback)

CascadeSpec == Init /\ [][NextCascade]_vars

NextMerge ==
    \/ AudioVideoMerger
    \/ merger.state = "built" /\ \E e \in MergeEnvs : MergeAudioVideo(e)

MergeSpec == Init /\ [][NextMerge]_vars

NextScenes ==
    \/ VideoGenerator
    \/ generator.state = "built" /\ \E script \in Scripts : GenerateScenes(script)
    \/ generator.state = "built" /\ \E section \in TypedSections, technologies \in TechnologyLists :
          DetermineSceneType(section, technologies)

SceneSpec == Init /\ [][NextScenes]_vars

NextCall ==
    \/ \E site \in CallSites : IssueCall(site)
    \/ Tick
    \/ \E outcome \in {"returned", "raised"} : ReturnCall(outcome)
    \/ ExpireCall

CallSpec == Init /\ [][NextCall]_vars

-----------------------------------------------------------------------------
(* The claims.  The specification's status names created and failed are the  *)
(* code's 'starting' and 'error'.                                            *)

SpecStatus(st) ==
    IF st = "starting" THEN "created" ELSE IF st = "error" THEN "failed" ELSE st

Sessions == DOMAIN processing_status

Terminal(s) == processing_status[s].status \in {"completed", "error"}

\* C1: the progress of a session never decreases, is 100 exactly when the
\* session is completed, and is below 100 in a failed session.
C1_ProgressMonotone ==
    [][\A s \in Sessions :
          /\ processing_status'[s].progress >= processing_status[s].progress
          /\ processing_status'[s].progress = 100
                 <=> SpecStatus(processing_status'[s].status) = "completed"
          /\ SpecStatus(processing_status'[s].status) = "failed"
                 => processing_status'[s].progress < 100]_vars

C1_Witness ==
    \E s, t \in Sessions :
        /\ processing_status[s].status = "completed" /\ processing_status[s].progress = 100
        /\ processing_status[t].status = "error" /\ processing_status[t].progress = 50

\* C2: under fair scheduling of the workers, every submitted session
\* eventually is completed with a result file or failed with an error
\* message: again and again, all the sessions submitted so far are.
C2_EventuallyTerminal ==
    []<>(\A s \in Sessions :
            \/ /\ SpecStatus(processing_status[s].status) = "completed"
               /\ processing_status[s].result_file # None
            \/ /\ SpecStatus(processing_status[s].status) = "failed"
               /\ processing_status[s].error # None)

C2_Witness ==
    \A s \in SessionIds :
        /\ s \in Sessions
        /\ Terminal(s)
        /\ processing_status[s].status = "completed" <=> s = 1

\* the message a stage raises when it fails
StageError(stage) ==
    IF stage = "analyze_repository" THEN analyze_repository(FALSE).raised
    ELSE IF stage = "generate_audio_from_text" THEN generate_audio("espeak", "raise", "raise").raised
    ELSE IF stage = "generate_video_from_script" THEN generate_video("raise", "raise").raised
    ELSE None

\* C3: submit answers with the new session's id before any stage has been
\* called, and a stage's error ends in the session alone: the session becomes
\* failed with the raised message as its error, and no response changes.
C3_ErrorsStayInWorker ==
    [][/\ \A id \in SessionIds :
             (id \notin Sessions /\ id \in DOMAIN processing_status')
                 => /\ response'.kind = "redirect"
                    /\ response'.to = "processing"
                    /\ response'.session_id = id
                    /\ invoked'[id] = <<>>
                    /\ pc'[id] = "start"
       /\ \A s \in Sessions :
             (processing_status[s].status # "error" /\ processing_status'[s].status = "error")
                 => /\ invoked'[s] # <<>>
                    /\ processing_status'[s].error = StageError(invoked'[s][Len(invoked'[s])])
                    /\ processing_status'[s].error # None
                    /\ response' = response]_vars

C3_Witness ==
    \E s \in Sessions :
        /\ processing_status[s].status = "error"
        /\ processing_status[s].error = "Could not generate video"
        /\ response.kind = "redirect"
        /\ response.to = "processing"
        /\ response.session_id = s

\* C4: once a session is completed or failed, no step changes its entry.
C4_TerminalAbsorbing ==
    [][\A s \in Sessions : Terminal(s) => processing_status'[s] = processing_status[s]]_vars

C4_Witness ==
    /\ response.kind = "json"
    /\ response.code = 200
    /\ response.body.status = "completed"
    /\ \E s \in Sessions : processing_status[s].status = "analyzing"

\* the stage sequence of the specification
StageOrder ==
    <<"created", "analyzing", "scripting", "synthesizing_audio", "rendering_video",
      "merging", "completed">>

Ordinal(st) == CHOOSE i \in 1..Len(StageOrder) : StageOrder[i] = st

\* C5 as claimed: every change of status goes to the next stage of the
\* sequence, or from a non-terminal stage to failed.
C5_Original ==
    [][\A s \in Sessions :
          LET a == SpecStatus(processing_status[s].status)
              b == SpecStatus(processing_status'[s].status) IN
          a # b =>
              \/ /\ a \notin {"completed", "failed"}
                 /\ b = "failed"
              \/ /\ a \in {StageOrder[i] : i \in 1..(Len(StageOrder) - 1)}
                 /\ b \in {StageOrder[i] : i \in 1..Len(StageOrder)}
                 /\ Ordinal(b) = Ordinal(a) + 1]_vars

\* the progress checkpoints, in order
Checkpoints == <<0, 10, 30, 50, 70, 90, 100>>

CheckpointIndex(p) == CHOOSE i \in 1..Len(Checkpoints) : Checkpoints[i] = p

\* C5, amended: the status goes created, analyzing, completed, one step at a
\* time; the five stages all run under analyzing and are told apart by the
\* progress, which moves to the next checkpoint each time; the only other
\* change is from a non-terminal status to failed, the progress kept.
C5_StatusOrder ==
    [][\A s \in Sessions :
          LET a == processing_status[s]
              b == processing_status'[s] IN
          (a.status # b.status \/ a.progress # b.progress) =>
              \/ /\ a.status = "starting" /\ b.status = "analyzing"
                 /\ a.progress = 0 /\ b.progress = 10
              \/ /\ a.status = "analyzing" /\ b.status = "analyzing"
                 /\ a.progress \in {10, 30, 50, 70}
                 /\ b.progress = Checkpoints[CheckpointIndex(a.progress) + 1]
              \/ /\ a.status = "analyzing" /\ b.status = "completed"
                 /\ a.progress = 90 /\ b.progress = 100
              \/ /\ a.status \in {"starting", "analyzing"} /\ b.status = "error"
                 /\ b.progress = a.progress]_vars

C5_Witness ==
    \E s \in Sessions :
        /\ processing_status[s].status = "completed"
        /\ invoked[s] = <<"analyze_repository", "generate_text", "generate_audio_from_text",
                          "generate_video_from_script", "merge_audio_video">>

\* C6: every session's status is one of the eight of the specification.
C6_StatusDomain ==
    \A s \in Sessions :
        SpecStatus(processing_status[s].status) \in
            {"created", "analyzing", "scripting", "synthesizing_audio", "rendering_video",
             "merging", "completed", "failed"}

C6_Witness ==
    \E s, t \in Sessions :
        /\ processing_status[s].status = "starting"
        /\ processing_status[t].status = "error"

\* C7 as claimed: a session that has not failed shows the checkpoint of its
\* status, the status's place in the stage sequence.
C7_Original ==
    \A s \in Sessions :
        LET st == SpecStatus(processing_status[s].status) IN
        st # "failed" =>
            /\ st \in {StageOrder[i] : i \in 1..Len(StageOrder)}
            /\ processing_status[s].progress = Checkpoints[Ordinal(st)]

\* C7, amended: in a session that has not failed the status is a function of
\* the progress: created at 0, analyzing at 10, 30, 50, 70 and 90, completed
\* at 100.  Different statuses never show the same progress; analyzing shows
\* five different progress values.
C7_StatusOfProgress ==
    \A s \in Sessions :
        LET e == processing_status[s] IN
        e.status # "error" =>
            /\ e.progress \in {Checkpoints[i] : i \in 1..Len(Checkpoints)}
            /\ e.status = IF e.progress = 0 THEN "starting"
                          ELSE IF e.progress = 100 THEN "completed"
                          ELSE "analyzing"

C7_Witness ==
    \E s, t \in Sessions :
        /\ processing_status[s].status = "analyzing" /\ processing_status[s].progress = 30
        /\ processing_status[t].status = "analyzing" /\ processing_status[t].progress = 90

\* C8: the error is set exactly in a failed session, the result file exactly
\* in a completed one.
C8_ErrorAndResult ==
    \A s \in Sessions :
        /\ processing_status[s].error # None
               <=> SpecStatus(processing_status[s].status) = "failed"
        /\ processing_status[s].result_file # None
               <=> SpecStatus(processing_status[s].status) = "completed"

C8_Witness ==
    \E s, t \in Sessions :
        /\ processing_status[s].status = "completed"
        /\ processing_status[s].result_file = "final.mp4"
        /\ processing_status[t].status = "error"
        /\ processing_status[t].error = "Could not generate audio file"

\* C9 as claimed: a session whose merge found no video file is failed and
\* publishes no result file.
C9_MissingVideoFails ==
    \A s \in DOMAIN video_found :
        ~video_found[s] =>
            /\ SpecStatus(processing_status[s].status) = "failed"
            /\ processing_status[s].result_file = None

\* the remote services whose key is set, in priority order
AvailableProviders(keys) == SelectSeq(Providers, LAMBDA p : p \in keys)

\* the speech engines _initialize_tts_engine would accept on this platform,
\* in the order it asks; edge_tts needs nothing
EngineOrder(system) ==
    (IF system = "windows" THEN <<"sapi">>
     ELSE IF system = "darwin" THEN <<"say">>
     ELSE IF system = "linux" THEN <<"espeak", "festival">>
     ELSE <<>>) \o <<"pyttsx3", "gtts", "edge_tts">>

AvailableEngines(system, found) ==
    SelectSeq(EngineOrder(system),
              LAMBDA e : \/ e = "edge_tts"
                         \/ e = "sapi" /\ "win32com" \in found
                         \/ e \in found)

\* the first provider of avail that succeeds; 0 when none does
FirstSuccess(avail, good) ==
    IF \E i \in 1..Len(avail) : avail[i] \in good
        THEN CHOOSE i \in 1..Len(avail) :
                 avail[i] \in good /\ \A j \in 1..(i - 1) : avail[j] \notin good
        ELSE 0

\* C10 as claimed: when the first k available providers fail and the next
\* one succeeds, exactly these k+1 are called, in order, and the result is
\* that of the last.
C10_Original ==
    /\ llm.state = "returned" =>
          LET avail == AvailableProviders(llm.keys)
              i == FirstSuccess(avail, {p \in ProviderSet : llm.outcome[p] = "ok"}) IN
          i > 0 => llm.called = SubSeq(avail, 1, i) /\ llm.text = avail[i]
    /\ tts.state = "returned" =>
          LET avail == AvailableEngines(tts.system, tts.found)
              i == FirstSuccess(avail, {e \in Engines : tts.works[e]}) IN
          i > 0 => /\ tts.called = SubSeq(avail, 1, i)
                   /\ tts.file \in {EngineFile(avail[i], o) : o \in {"wav", "native"}}

\* C10, amended: one provider is called, the first available one in
\* priority order, fixed when the object is built.  If it succeeds its result
\* is returned and nothing else is called; if it fails the local fallback is
\* called next and no other provider is tried.
C10_SingleProvider ==
    /\ llm.state = "returned" =>
          LET avail == AvailableProviders(llm.keys) IN
          /\ llm.service = IF avail = <<>> THEN "local" ELSE avail[1]
          /\ IF llm.service = "local"
                 THEN /\ llm.called = <<"local">>
                      /\ llm.text \in {"distilgpt2_text", "template_text"}
             ELSE IF llm.outcome[llm.service] = "ok"
                 THEN /\ llm.called = <<llm.service>>
                      /\ llm.text = llm.service
             ELSE /\ llm.called = <<llm.service, "local">>
                  /\ llm.text \in {"distilgpt2_text", "template_text"}
    /\ tts.state = "returned" =>
          LET avail == AvailableEngines(tts.system, tts.found) IN
          /\ tts.engine = avail[1]
          /\ IF tts.works[tts.engine]
                 THEN /\ tts.called = <<tts.engine>>
                      /\ tts.raised = None
                      /\ tts.file \in {EngineFile(tts.engine, o) : o \in {"wav", "native"}}
                 ELSE /\ tts.called = <<tts.engine, "silent">>
                      /\ \/ tts.raised = None /\ tts.file = "audio_silent.wav"
                         \/ tts.raised # None /\ tts.file = None

C10_Witness ==
    /\ llm.state = "returned"
    /\ llm.keys = {"groq", "openai", "together"}
    /\ llm.outcome["groq"] = "http_error"
    /\ llm.outcome["openai"] = "ok"
    /\ llm.called = <<"groq", "local">>

\* C11: generate_text returns a text and raises nothing whatever the remote
\* service and the local model do: the service's own text when its call
\* succeeds, else the text of the local generator, and the template text when
\* the service (if any is configured) and the local model have all failed.
C11_TextNeverFails ==
    llm.state = "returned" =>
        /\ llm.raised = None
        /\ llm.text \in ProviderSet \cup {"distilgpt2_text", "template_text"}
        /\ (llm.service # "local" /\ llm.outcome[llm.service] = "ok") => llm.text = llm.service
        /\ ( /\ llm.service # "local" => llm.outcome[llm.service] # "ok"
             /\ llm.local # "model_ok" ) => llm.text = "template_text"

C11_Witness ==
    /\ llm.state = "returned"
    /\ llm.service = "groq"
    /\ llm.outcome["groq"] = "exception"
    /\ llm.local = "import_error"
    /\ llm.text = "template_text"
    /\ llm.raised = None

\* C12 as claimed: generate_audio returns the path of an audio file and
\* raises nothing whatever the engine found and its call do, the silent file
\* when the engine fails.
C12_SpeechNeverFails ==
    tts.state = "returned" =>
        /\ tts.raised = None
        /\ tts.file # None
        /\ ~tts.works[tts.engine] => tts.file = "audio_silent.wav"

\* the commands of the last merge, by name and in order
Cmds == [i \in 1..Len(merger.trace) |-> merger.trace[i].cmd]

Ran(cmd) == \E i \in 1..Len(merger.trace) : merger.trace[i].cmd = cmd

\* a merge_audio_video call that found both files
Merged ==
    /\ merger.state = "returned"
    /\ merger.env.video_exists
    /\ merger.env.audio_exists

BothProbed == merger.env.Dv # ProbeFailed /\ merger.env.Da # ProbeFailed

\* the second probe of the video, when it answers, answers as the first did
SameVideo == merger.env.Dv2 \in {merger.env.Dv, ProbeFailed}

\* C13: when the video file exists, merge_audio_video raises nothing whatever
\* the probes and the merge commands do, returns the merged file or the
\* video file, and returns the video file when the direct mux was run and
\* failed.
C13_MergeNeverAborts ==
    (merger.state = "returned" /\ merger.env.video_exists) =>
        /\ merger.raised = None
        /\ merger.file \in {"output", "video"}
        /\ MergedPath(merger.file, "video.mp4") \in {"final.mp4", "video.mp4"}
        /\ (Ran("simple") /\ merger.env.simple # "ok") => merger.file = "video"

C13_Witness ==
    /\ Merged
    /\ Cmds = <<"probe_video", "probe_audio", "simple">>
    /\ merger.env.simple = "exception"
    /\ merger.env.out_exists /\ merger.env.verify
    /\ merger.file = "video"

\* C14: when the audio file does not exist and the video file does, the
\* merge returns the video file without running a probe or a merge command,
\* and the controller's last update completes the session with that file.
C14_NoAudioReturnsVideo ==
    (merger.state = "returned" /\ merger.env.video_exists /\ ~merger.env.audio_exists) =>
        /\ merger.file = "video"
        /\ merger.raised = None
        /\ merger.trace = <<>>
        /\ \A url \in Urls : \A p \in {"video.mp4", "video_fallback.mp4"} :
               LET entry == UpdateCompleted(UpdateAnalyzing(NewStatus(url)),
                                            MergedPath(merger.file, p)) IN
               entry.status = "completed" /\ entry.result_file = p

C14_Witness ==
    /\ merger.state = "returned"
    /\ merger.env.video_exists
    /\ ~merger.env.audio_exists
    /\ merger.env.Dv = 100 /\ merger.env.Da = 400
    /\ merger.file = "video"

\* C15: with both durations probed and diff = |Dv - Da|, the first thing
\* after the two probes is the direct mux exactly when diff < 3.0, the audio
\* loop cut at Dv exactly when diff >= 3.0 and Dv > Da, and the speed adjust
\* (which starts by probing the video again) exactly when diff >= 3.0 and
\* Da > Dv.
C15_FirstStrategy ==
    (Merged /\ BothProbed) =>
        LET Dv == merger.env.Dv
            Da == merger.env.Da
            diff == Abs(Dv - Da) IN
        /\ Len(merger.trace) >= 3
        /\ Cmds[1] = "probe_video" /\ Cmds[2] = "probe_audio"
        /\ Cmds[3] \in {"simple", "loop", "probe_video"}
        /\ Cmds[3] = "simple" <=> diff < 30
        /\ Cmds[3] = "loop" <=> (diff >= 30 /\ Dv > Da)
        /\ Cmds[3] = "probe_video" <=> (diff >= 30 /\ Da > Dv)
        /\ Cmds[3] = "loop" =>
               /\ merger.trace[3].t = Dv
               /\ loop_length(merger.trace[3]) = Dv
        /\ (Dv = 100 /\ Da = 105) => Cmds[3] = "simple"
        /\ (Dv = 400 /\ Da = 80) => Cmds[3] = "loop" /\ loop_length(merger.trace[3]) = 400
        /\ diff = 30 => Cmds[3] # "simple"

C15_Witness ==
    /\ Merged
    /\ merger.env.Dv = 110 /\ merger.env.Da = 80
    /\ merger.trace = <<ProbeVideo, ProbeAudio, LoopCmd(110), VerifyCmd>>
    /\ merger.file = "output"

\* C16: in the speed adjust (Da > Dv, diff >= 3.0), the video probed again
\* with the same result, speed_factor = Dv / Da: when 0.5 <= speed_factor <=
\* 2.0, bounds included, the setpts command is run with that factor and
\* stretches the video to Da; otherwise it is not run and the direct mux is.
C16_TimeScale ==
    ( /\ Merged /\ BothProbed
      /\ merger.env.Da > merger.env.Dv
      /\ merger.env.Da - merger.env.Dv >= 30
      /\ merger.env.Dv2 = merger.env.Dv ) =>
        LET Dv == merger.env.Dv
            Da == merger.env.Da IN
        /\ Len(merger.trace) >= 4
        /\ IF 2 * Dv >= Da /\ Dv <= 2 * Da
               THEN /\ merger.trace[4] = SpeedCmd(Dv, Da)
                    /\ speed_video_length(merger.env, merger.trace[4]) = Da
               ELSE /\ ~Ran("speed")
                    /\ Cmds[4] = "simple"
        /\ (Dv = 80 /\ Da = 120) =>
               Cmds[4] = "speed" /\ speed_video_length(merger.env, merger.trace[4]) = 120
        /\ (Dv = 80 /\ Da = 400) =>
               Cmds[4] = "simple" /\ simple_length(merger.env) = 80

C16_Witness ==
    /\ Merged
    /\ merger.env.Dv = 200 /\ merger.env.Da = 400 /\ merger.env.Dv2 = 200
    /\ merger.trace = <<ProbeVideo, ProbeAudio, ProbeVideo, SpeedCmd(200, 400), VerifyCmd>>
    /\ merger.file = "output"

\* C17: when the probe of the video or of the audio fails, the direct mux is
\* the only merge command of that merge: the audio loop and the setpts
\* command are not run.
C17_ProbeFailureDirectMux ==
    (Merged /\ ~BothProbed) =>
        /\ Cmds \in {<<"probe_video", "probe_audio", "simple">>,
                     <<"probe_video", "probe_audio", "simple", "verify">>}
        /\ ~Ran("loop")
        /\ ~Ran("speed")

C17_Witness ==
    /\ Merged
    /\ merger.env.Dv = 400 /\ merger.env.Da = ProbeFailed
    /\ Cmds = <<"probe_video", "probe_audio", "simple", "verify">>
    /\ merger.file = "output"

\* how the commands of a merge ended
Outcome(cmd) ==
    IF cmd = "loop" THEN merger.env.loop
    ELSE IF cmd = "speed" THEN merger.env.speed
    ELSE merger.env.simple

\* C18 as claimed: when the audio loop or the setpts command fails in any
\* way (non-zero exit, timeout, failure to launch), the direct mux is run
\* next and exactly once; a direct mux is never followed by another merge
\* command.
C18_FallbackOneTier ==
    (Merged /\ SameVideo) =>
        \A i \in 1..Len(merger.trace) :
            /\ (Cmds[i] \in {"loop", "speed"} /\ Outcome(Cmds[i]) # "ok") =>
                   /\ i < Len(merger.trace)
                   /\ Cmds[i + 1] = "simple"
                   /\ Cardinality({j \in 1..Len(merger.trace) : Cmds[j] = "simple"}) = 1
            /\ Cmds[i] = "simple" =>
                   \A j \in (i + 1)..Len(merger.trace) : Cmds[j] = "verify"

\* C19 as claimed: the merged file is returned only when it was verified,
\* and when the output of the audio loop or of the setpts command fails the
\* verification the direct mux is run next.
C19_Original ==
    (Merged /\ SameVideo) =>
        /\ merger.file = "output" =>
               (Cmds[Len(merger.trace)] = "verify" /\ merger.env.verify)
        /\ \A i \in 2..Len(merger.trace) :
               (Cmds[i] = "verify" /\ ~merger.env.verify /\ Cmds[i - 1] \in {"loop", "speed"}) =>
                   (i < Len(merger.trace) /\ Cmds[i + 1] = "simple")

\* C19, amended: the output of a merge command that reported success is
\* verified, the verification is the last thing the merge runs, and the
\* merged file is returned exactly when it succeeds; when it fails the
\* original video is returned whichever command wrote the output, the audio
\* loop and the setpts command included, and no direct mux follows.
C19_VerifyOrOriginal ==
    Merged =>
        /\ merger.file = "output" <=> (Ran("verify") /\ merger.env.verify)
        /\ Ran("verify") =>
               /\ Cmds[Len(merger.trace)] = "verify"
               /\ Len(merger.trace) >= 2
               /\ Cmds[Len(merger.trace) - 1] \in {"simple", "loop", "speed"}
               /\ Outcome(Cmds[Len(merger.trace) - 1]) = "ok"
               /\ merger.env.out_exists
               /\ Cardinality({j \in 1..Len(merger.trace) : Cmds[j] = "verify"}) = 1
        /\ (Ran("verify") /\ ~merger.env.verify) => merger.file = "video"

C19_Witness ==
    /\ Merged
    /\ merger.env.Dv = 400 /\ merger.env.Da = 80
    /\ Cmds = <<"probe_video", "probe_audio", "loop", "verify">>
    /\ ~merger.env.verify
    /\ merger.file = "video"

\* fractions
RECURSIVE GCD(_, _)
GCD(a, b) == IF b = 0 THEN a ELSE GCD(b, a % b)

Reduced(q) == LET g == GCD(q.num, q.den) IN
              IF g = 0 THEN q ELSE [num |-> q.num \div g, den |-> q.den \div g]

RatEq(p, q) == p.num * q.den = q.num * p.den
RatLess(p, q) == p.num * q.den < q.num * p.den
RatAdd(p, q) == Reduced([num |-> p.num * q.den + q.num * p.den, den |-> p.den * q.den])

\* the sum of the durations of the first k scenes
RECURSIVE DurationOfFirst(_, _)
DurationOfFirst(scenes, k) ==
    IF k = 0 THEN [num |-> 0, den |-> 1]
    ELSE RatAdd(DurationOfFirst(scenes, k - 1), scenes[k].duration)

\* C20: for a script that is not empty there is at least one scene, every
\* scene lasts the total duration divided by the number of scenes, the
\* durations add up to the total duration, the first scene starts at 0 and
\* every scene starts where the scenes before it end, later than the one
\* before.
C20_ScenesPartitionDuration ==
    (generator.state = "returned" /\ generator.script # <<>>) =>
        LET scenes == generator.scenes
            n == Len(scenes)
            total == [num |-> generator.duration, den |-> 1] IN
        /\ n >= 1
        /\ \A i \in 1..n : RatEq(scenes[i].duration, [num |-> generator.duration, den |-> n])
        /\ RatEq(DurationOfFirst(scenes, n), total)
        /\ scenes[1].start_time.num = 0
        /\ \A i \in 1..n : RatEq(scenes[i].start_time, DurationOfFirst(scenes, i - 1))
        /\ \A i \in 1..(n - 1) : RatLess(scenes[i].start_time, scenes[i + 1].start_time)

C20_Witness ==
    /\ generator.state = "returned"
    /\ Len(SplitWords(generator.script)) = 800
    /\ generator.duration = 1500
    /\ Len(generator.scenes) = 4
    /\ generator.scenes[4].start_time = [num |-> 4500, den |-> 4]

\* C21: the dict of a session is written by that session's worker alone: a
\* step of one worker leaves every other session's dict as it was, a dict
\* that changes belongs to a session whose worker is running and has just
\* moved, and a submission leaves the dicts already there alone.
C21_SingleWriter ==
    [][/\ \A s \in SessionIds : \A t \in Sessions :
             (s # t /\ pc'[s] # pc[s]) => processing_status'[t] = processing_status[t]
       /\ \A t \in Sessions :
             processing_status'[t] # processing_status[t]
                 => /\ pc[t] \notin {"none", "done"}
                    /\ pc'[t] # pc[t]
                    /\ \A s \in SessionIds \ {t} : pc'[s] = pc[s]]_vars

C21_Witness ==
    \E s, t \in Sessions :
        /\ s # t
        /\ pc[s] = "video" /\ processing_status[s].progress = 70
        /\ pc[t] = "script" /\ processing_status[t].progress = 30

\* the message written together with each progress value
StageMessage(p) ==
    IF p = 0 THEN "Initializing repository processing..."
    ELSE IF p = 10 THEN "Downloading and analyzing repository content..."
    ELSE IF p = 30 THEN "Generating video script from repository analysis..."
    ELSE IF p = 50 THEN "Creating audio narration from script..."
    ELSE IF p = 70 THEN "Generating video content and visuals..."
    ELSE IF p = 90 THEN "Merging audio and video components..."
    ELSE "Video generation completed successfully!"

\* a dict all of whose fields come from whole updates: the fields written
\* together agree with each other
WholeSnapshot(entry) ==
    /\ entry.status \in {"starting", "analyzing", "completed", "error"}
    /\ entry.status = "starting" => entry.progress = 0
    /\ entry.status = "analyzing" => entry.progress \in {10, 30, 50, 70, 90}
    /\ entry.status = "completed" <=> entry.progress = 100
    /\ entry.status = "completed" <=> entry.result_file # None
    /\ entry.status = "error" <=> entry.error # None
    /\ IF entry.status = "error"
           THEN entry.message = <<"Error: ", entry.error>>
           ELSE entry.message = <<StageMessage(entry.progress)>>

\* C22: a status read answers with a snapshot that one whole update left:
\* never completed without a result file, never progress 100 under another
\* status, never failed without an error, never the message of one stage
\* with the progress of another.
C22_AtomicUpdates ==
    (response.kind = "json" /\ response.code = 200) => WholeSnapshot(response.body)

C22_Witness ==
    /\ response.kind = "json"
    /\ response.code = 200
    /\ response.body.progress = 90
    /\ processing_status[response.session_id].status = "completed"
    /\ \E t \in Sessions : processing_status[t].status = "error"

\* a source reference that is empty, not a github.com URL, or lacks the
\* owner or the repository name
Malformed(url) ==
    \/ IsEmptyUrl(url)
    \/ url.prefix \notin GithubPrefixes
    \/ Len(url.parts) < 2
    \/ url.parts[1] = ""
    \/ url.parts[2] = ""

\* C23: no session is ever created for a malformed source reference, and the
\* request that is sent back to the index left the registry, the ids and the
\* workers as they were.
C23_RejectedBeforeSession ==
    [][/\ \A s \in DOMAIN processing_status' :
             ~Malformed(processing_status'[s].github_url)
       /\ (response' # response /\ response'.kind = "redirect" /\ response'.to = "index")
             => /\ response'.flash # None
                /\ response'.session_id = None
                /\ UNCHANGED <<processing_status, pc, audio_file, video_file,
                               video_found, invoked>>]_vars

C23_Witness ==
    /\ response.kind = "redirect"
    /\ response.to = "index"
    /\ response.flash =
           "Please provide a valid GitHub repository URL with owner and repository name"
    /\ \E s \in Sessions : pc[s] = "audio"

\* C24: a status request for an id the registry does not hold is answered 404
\* with the error body, one for an id it holds is answered with that
\* session's dict as it is at that moment, and neither changes anything but
\* the response.
C24_GetStatus ==
    [][(response' # response /\ response'.kind = "json")
          => /\ UNCHANGED <<processing_status, pc, audio_file, video_file,
                            video_found, invoked>>
             /\ IF response'.session_id \in Sessions
                    THEN /\ response'.code = 200
                         /\ response'.body = processing_status[response'.session_id]
                    ELSE /\ response'.code = 404
                         /\ response'.body = [error |-> "Invalid session ID"]]_vars

C24_Witness ==
    /\ response.kind = "json"
    /\ response.code = 404
    /\ response.session_id \notin Sessions
    /\ \E s \in Sessions : processing_status[s].status = "analyzing"

\* C25: every blocking external call a job waits for was issued with a
\* timeout.
C25_EveryCallHasTimeout ==
    call.state = "running" => call.site.timeout # <<>>

\* C26: when the provider of a cascade has failed and the final fallback has
\* run, the call ends without an exception, with a text or a file, and the
\* fallback has started no subprocess.
C26_FallbackLocalTotal ==
    /\ (llm.state = "returned" /\ llm.called = <<llm.service, "local">>)
          => /\ llm.raised = None
             /\ llm.text # None
    /\ (tts.state = "returned" /\ tts.called = <<tts.engine, "silent">>)
          => /\ tts.raised = None
             /\ tts.file # None
             /\ tts.fallback_calls = <<>>

\* the stages the controller calls
Stages ==
    {"analyze_repository", "generate_text", "generate_audio_from_text",
     "generate_video_from_script", "merge_audio_video"}

\* C27: the controller calls no stage twice in a session, and once a session
\* has failed it calls no stage for it any more.
C27_NoStageRetry ==
    [][\A s \in SessionIds :
          /\ \A i, j \in 1..Len(invoked'[s]) :
                 /\ invoked'[s][i] \in Stages
                 /\ i # j => invoked'[s][i] # invoked'[s][j]
          /\ (s \in Sessions /\ processing_status[s].status = "error")
                 => invoked'[s] = invoked[s]]_vars

C27_Witness ==
    \E s, t \in Sessions :
        /\ processing_status[s].status = "error"
        /\ invoked[s] = <<"analyze_repository", "generate_text", "generate_audio_from_text">>
        /\ pc[s] = "done"
        /\ processing_status[t].status = "completed"
        /\ Len(invoked[t]) = 5

\* the progress a session shows while its thread is at a position
ProgressAt(position) ==
    IF position = "start" THEN 0
    ELSE IF position = "analyze" THEN 10
    ELSE IF position = "script" THEN 30
    ELSE IF position = "audio" THEN 50
    ELSE IF position = "video" THEN 70
    ELSE 90

\* C28: while a stage runs, the session shows that stage's checkpoint and
\* message: 10 during the analysis, 30 during the text generation, 50 during
\* the speech synthesis, 70 during the rendering, 90 during the merge; and a
\* session shows 100 only when its merge has returned.
C28_CheckpointBeforeWork ==
    \A s \in Sessions :
        /\ pc[s] \in {"analyze", "script", "audio", "video", "merge"}
               => /\ processing_status[s].progress = ProgressAt(pc[s])
                  /\ processing_status[s].message = <<StageMessage(ProgressAt(pc[s]))>>
        /\ processing_status[s].progress = 100
               => /\ pc[s] = "done"
                  /\ Len(invoked[s]) = 5
                  /\ invoked[s][5] = "merge_audio_video"

C28_Witness ==
    \E s, t \in Sessions :
        /\ pc[s] = "merge" /\ processing_status[s].progress = 90
        /\ invoked[s] = <<"analyze_repository", "generate_text", "generate_audio_from_text",
                          "generate_video_from_script">>
        /\ pc[t] = "analyze" /\ processing_status[t].progress = 10

\* C29: the total duration of a script of w words is 30 s up to 75 words,
\* 0.4 s a word from 75 to 750 words and 300 s from 750 words on (in fifths
\* of a second: 150, 2 w, 1500), and the durations of the scenes are equal
\* shares of this total.
C29_DurationClamp ==
    generator.state = "returned" =>
        LET w == Len(SplitWords(generator.script))
            total == IF w <= 75 THEN 5 * 30 ELSE IF w <= 750 THEN 2 * w ELSE 5 * 300
            scenes == generator.scenes
            n == Len(scenes) IN
        /\ generator.duration = total
        /\ w = 75 => 2 * w = 5 * 30
        /\ w = 750 => 2 * w = 5 * 300
        /\ \A i \in 1..n : RatEq(scenes[i].duration, [num |-> total, den |-> n])
        /\ RatEq(DurationOfFirst(scenes, n), [num |-> total, den |-> 1])

C29_Witness ==
    /\ generator.state = "returned"
    /\ Len(SplitWords(generator.script)) = 76
    /\ generator.duration = 152
    /\ Len(generator.scenes) = 4
    /\ generator.scenes[1].duration = [num |-> 152, den |-> 4]

\* a line that opens a section: it has '[', ']' and a digit
IsMarkerLine(line) ==
    /\ Contains(line, "[")
    /\ Contains(line, "]")
    /\ \E i \in 1..Len(line) : line[i] \in Digits

\* the positions of the marker lines among the lines of a script, ascending
MarkerLines(script) ==
    LET lines == SplitOn(script, <<"NL">>) IN
    SelectSeq([i \in 1..Len(lines) |-> i], LAMBDA i : IsMarkerLine(lines[i]))

\* lines a to b of a script as one text, outer white space removed
Chunk(script, a, b) ==
    Strip(Join(SubSeq(SplitOn(script, <<"NL">>), a, b), <<"NL">>))

\* one section per marker line: the line and what follows it up to the next
\* marker line
MarkerChunks(script) ==
    LET m == MarkerLines(script)
        last == Len(SplitOn(script, <<"NL">>)) IN
    [k \in 1..Len(m) |-> Chunk(script, m[k], IF k < Len(m) THEN m[k + 1] - 1 ELSE last)]

\* the text before the first marker line
Preamble(script) ==
    LET m == MarkerLines(script) IN
    IF m = <<>> THEN Strip(script) ELSE Chunk(script, 1, m[1] - 1)

\* the marker sections with the text before the first marker, when it is
\* not blank, as a section of its own in front
PreambleAndChunks(script) ==
    (IF Preamble(script) # <<>> THEN <<Preamble(script)>> ELSE <<>>) \o MarkerChunks(script)

\* what the rules after the marker rule give: paragraphs when there are two
\* or more, else groups of sentences when there are more than four, else
\* groups of words when there are more than 40, else the whole text
LaterRules(script) ==
    LET paragraphs == SplitOn(script, <<"NL", "NL">>)
        sentences == SplitOn(script, <<".", " ">>)
        words == SplitWords(script) IN
    IF Len(paragraphs) > 1
        THEN SelectSeq([k \in 1..Len(paragraphs) |-> Strip(paragraphs[k])],
                       LAMBDA p : p # <<>>)
    ELSE IF Len(sentences) > 4
        THEN grouped(sentences, Max(Len(sentences) \div 4, 1), <<".", " ">>)
    ELSE IF Len(words) > 40
        THEN grouped(words, Max(Len(words) \div 4, 20), <<" ">>)
    ELSE IF script # <<>> THEN <<script>>
    ELSE <<<<"Repository Overview">>>>

\* C30 as claimed: the marker rule decides when it gives two sections or
\* more, one per marker line, and the later rules decide in their order
\* otherwise.
C30_Original ==
    generator.state = "returned" =>
        generator.script_sections =
            IF Len(MarkerChunks(generator.script)) >= 2
                THEN MarkerChunks(generator.script)
                ELSE LaterRules(generator.script)

\* C30, amended: the rules are tried in the order markers, paragraphs,
\* sentences, words, whole text and the first applicable one decides; the
\* marker rule gives one section per marker line, the line with what follows
\* it up to the next marker line, and before them one more section with the
\* text in front of the first marker line when that text is not blank; it is
\* accepted when these are two sections or more.
C30_RuleOrder ==
    generator.state = "returned" =>
        generator.script_sections =
            IF Len(PreambleAndChunks(generator.script)) >= 2
                THEN PreambleAndChunks(generator.script)
                ELSE LaterRules(generator.script)

C30_Witness ==
    /\ generator.state = "returned"
    /\ Len(MarkerLines(generator.script)) = 2
    /\ Preamble(generator.script) = <<"a">>
    /\ generator.script_sections =
           << <<"a">>, <<"[", "1", "]", " ", "a">>, <<"[", "1", "]", " ", "a">> >>

\* what the rules after the paragraph rule give: groups of sentences when
\* there are more than four, else groups of words when there are more than
\* 40, else the whole text
AfterParagraphs(script) ==
    LET sentences == SplitOn(script, <<".", " ">>)
        words == SplitWords(script) IN
    IF Len(sentences) > 4
        THEN grouped(sentences, Max(Len(sentences) \div 4, 1), <<".", " ">>)
    ELSE IF Len(words) > 40
        THEN grouped(words, Max(Len(words) \div 4, 20), <<" ">>)
    ELSE IF script # <<>> THEN <<script>>
    ELSE <<<<"Repository Overview">>>>

\* the paragraphs of a script that are not blank, outer white space removed
NonEmptyParagraphs(script) ==
    LET paragraphs == SplitOn(script, <<"NL", "NL">>) IN
    SelectSeq([k \in 1..Len(paragraphs) |-> Strip(paragraphs[k])], LAMBDA p : p # <<>>)

\* C31: when the marker rule does not decide, the paragraph rule decides
\* exactly when the script has two non-empty paragraphs or more, and returns
\* them; with fewer the result is the one of the sentence rule and the rules
\* after it.
C31_ParagraphRule ==
    (generator.state = "returned" /\ Len(PreambleAndChunks(generator.script)) < 2) =>
        generator.script_sections =
            IF Len(NonEmptyParagraphs(generator.script)) >= 2
                THEN NonEmptyParagraphs(generator.script)
                ELSE AfterParagraphs(generator.script)

\* the sentence rule is the one that decides: no two marker sections, no
\* blank line, more than four sentences
SentenceRuleApplies(script) ==
    /\ Len(PreambleAndChunks(script)) < 2
    /\ Len(SplitOn(script, <<"NL", "NL">>)) = 1
    /\ Len(SplitOn(script, <<".", " ">>)) > 4

\* the word rule is the one that decides: none of the rules before it, and
\* more than 40 words
WordRuleApplies(script) ==
    /\ Len(PreambleAndChunks(script)) < 2
    /\ Len(SplitOn(script, <<"NL", "NL">>)) = 1
    /\ Len(SplitOn(script, <<".", " ">>)) <= 4
    /\ Len(SplitWords(script)) > 40

\* C32: the sentence rule and the word rule return four sections.
C32_FourSections ==
    (/\ generator.state = "returned"
     /\ SentenceRuleApplies(generator.script) \/ WordRuleApplies(generator.script))
        => Len(generator.script_sections) = 4

\* C33: a script without marker lines, without a blank line, of at most four
\* sentences and at most 40 words is returned whole as the only section,
\* and the empty script gives the placeholder as the only section.
C33_WholeText ==
    (/\ generator.state = "returned"
     /\ MarkerLines(generator.script) = <<>>
     /\ Len(SplitOn(generator.script, <<"NL", "NL">>)) = 1
     /\ Len(SplitOn(generator.script, <<".", " ">>)) <= 4
     /\ Len(SplitWords(generator.script)) <= 40)
        => generator.script_sections =
               IF generator.script = <<>> THEN << <<"Repository Overview">> >>
               ELSE <<generator.script>>

C33_Witness ==
    /\ generator.state = "returned"
    /\ generator.script = <<" ", "a", " ">>
    /\ generator.script_sections = << <<" ", "a", " ">> >>
    /\ Len(generator.scenes) = 1

\* the sentences of the sections, in the order of the sections
SentencesOf(sections) ==
    Join([k \in 1..Len(sections) |-> SplitOn(sections[k], <<".", " ">>)], <<>>)

\* the words of the sections, in the order of the sections
WordsOf(sections) ==
    Join([k \in 1..Len(sections) |-> SplitWords(sections[k])], <<>>)

\* the members of a sequence of texts that are not empty
NonEmpty(texts) == SelectSeq(texts, LAMBDA t : t # <<>>)

\* C40 as claimed: the sections of the sentence rule hold the sentences of
\* the script, all of them and in their order, those of the word rule its
\* words, and no section is empty.
C40_Original ==
    generator.state = "returned" =>
        /\ SentenceRuleApplies(generator.script)
               => /\ SentencesOf(generator.script_sections)
                         = SplitOn(generator.script, <<".", " ">>)
                  /\ \A k \in 1..Len(generator.script_sections) :
                         generator.script_sections[k] # <<>>
        /\ WordRuleApplies(generator.script)
               => /\ WordsOf(generator.script_sections) = SplitWords(generator.script)
                  /\ \A k \in 1..Len(generator.script_sections) :
                         generator.script_sections[k] # <<>>

\* C40, amended: the sections of the word rule hold every word of the script
\* once and in order; the sections of the sentence rule hold every sentence
\* that is not empty once and in order, and no more sentences than the
\* script has: an empty sentence that makes a group of its own is left out;
\* no section is empty.
C40_NothingLost ==
    generator.state = "returned" =>
        /\ SentenceRuleApplies(generator.script)
               => /\ NonEmpty(SentencesOf(generator.script_sections))
                         = NonEmpty(SplitOn(generator.script, <<".", " ">>))
                  /\ Len(SentencesOf(generator.script_sections))
                         <= Len(SplitOn(generator.script, <<".", " ">>))
                  /\ \A k \in 1..Len(generator.script_sections) :
                         generator.script_sections[k] # <<>>
        /\ WordRuleApplies(generator.script)
               => /\ WordsOf(generator.script_sections) = SplitWords(generator.script)
                  /\ \A k \in 1..Len(generator.script_sections) :
                         generator.script_sections[k] # <<>>

C40_Witness ==
    /\ generator.state = "returned"
    /\ SentenceRuleApplies(generator.script)
    /\ Len(SplitOn(generator.script, <<".", " ">>)) = 9
    /\ Len(SentencesOf(generator.script_sections)) = 8
    /\ Len(generator.script_sections) = 4

\* the categories in the order of the table, content being the default
Categories == <<"title", "features", "technology", "code", "conclusion">>

\* a section matches a category: it has one of the category's keywords, or,
\* for technology, the name of a detected technology, letter case ignored
MatchesCategory(category, section, technologies) ==
    LET has(words) == \E i \in 1..Len(section) : Lower(section[i]) \in words IN
    IF category = "title" THEN has(TitleWords)
    ELSE IF category = "features" THEN has(FeatureWords)
    ELSE IF category = "technology"
        THEN has({Lower(technologies[k]) : k \in 1..Len(technologies)})
    ELSE IF category = "code" THEN has(CodeWords)
    ELSE has(ConclusionWords)

\* C34: the type of a section is the first category of the table it
\* matches, and content when it matches none.
C34_FirstMatch ==
    generator.state = "typed" =>
        LET matching == {i \in 1..Len(Categories) :
                            MatchesCategory(Categories[i], generator.section,
                                            generator.technologies)} IN
        IF matching = {} THEN generator.type = "content"
        ELSE generator.type = Categories[CHOOSE i \in matching : \A j \in matching : i <= j]

C34_Witness ==
    /\ generator.state = "typed"
    /\ generator.section = <<"code", "flask">>
    /\ generator.technologies = <<"Python", "Flask">>
    /\ generator.type = "technology"

\* the providers from the highest priority to the lowest
PriorityOrder == <<"groq", "openai", "anthropic", "together", "huggingface">>

\* C35: generate_text calls no provider whose key is not set, and the first
\* generator it calls is the provider of highest priority among those whose
\* key is set, or the local generator when no key is set.
C35_CredentialedOnly ==
    llm.state = "returned" =>
        /\ \A i \in 1..Len(llm.called) :
               llm.called[i] # "local" => llm.called[i] \in llm.keys
        /\ llm.called # <<>>
        /\ IF llm.keys = {} THEN llm.called[1] = "local"
           ELSE \E i \in 1..Len(PriorityOrder) :
                    /\ llm.called[1] = PriorityOrder[i]
                    /\ PriorityOrder[i] \in llm.keys
                    /\ \A j \in 1..(i - 1) : PriorityOrder[j] \notin llm.keys

C35_Witness ==
    /\ llm.state = "returned"
    /\ llm.keys = {"openai", "huggingface"}
    /\ llm.outcome["openai"] = "ok"
    /\ llm.called = <<"openai">>

\* the collaborators in the order of the pipeline
StageSequence ==
    <<"analyze_repository", "generate_text", "generate_audio_from_text",
      "generate_video_from_script", "merge_audio_video">>

\* the paths the speech stage and the rendering stage can return
AudioPaths == {"audio.wav", "audio.aiff", "audio.mp3", "audio_silent.wav"}
VideoPaths == {"video.mp4", "video_fallback.mp4"}

\* C36: the collaborators of a session are called in the order analysis,
\* text, speech, rendering, merge, one at a time and never for a session
\* that has failed; the audio path is in hand from the return of the speech
\* stage on and the video path from the return of the rendering stage on,
\* both unchanged up to the merge, which is called with the two of them and
\* whose result is the merged file or that video path.
C36_PipelineOrder ==
    [][\A s \in Sessions :
          /\ Len(invoked'[s]) <= Len(StageSequence)
          /\ invoked'[s] = SubSeq(StageSequence, 1, Len(invoked'[s]))
          /\ invoked'[s] # invoked[s]
                 => /\ Len(invoked'[s]) = Len(invoked[s]) + 1
                    /\ processing_status[s].status = "analyzing"
                    /\ processing_status[s].progress = Checkpoints[Len(invoked'[s]) + 1]
          /\ (pc[s] = "audio" /\ pc'[s] = "video") => audio_file'[s] \in AudioPaths
          /\ (pc[s] = "video" /\ pc'[s] = "merge")
                 => /\ video_file'[s] \in VideoPaths
                    /\ audio_file'[s] = audio_file[s]
          /\ (pc[s] = "merge" /\ pc'[s] # "merge")
                 => /\ invoked[s] = SubSeq(StageSequence, 1, 4)
                    /\ audio_file[s] \in AudioPaths
                    /\ video_file[s] \in VideoPaths
                    /\ processing_status'[s].result_file \in {"final.mp4", video_file[s]}]_vars

C36_Witness ==
    \E s \in Sessions :
        /\ pc[s] = "merge"
        /\ audio_file[s] = "audio_silent.wav"
        /\ video_file[s] = "video_fallback.mp4"
        /\ invoked[s] = SubSeq(StageSequence, 1, 4)

\* C37: the step that makes a session failed writes its status, error and
\* message and nothing else: the progress stays at the checkpoint of the
\* stage that failed, below 100, the result file stays unset and the
\* submitted URL stays.
C37_FailureFrame ==
    [][\A s \in Sessions :
          (processing_status[s].status # "error" /\ processing_status'[s].status = "error")
              => /\ processing_status'[s].progress = processing_status[s].progress
                 /\ processing_status'[s].progress \in {10, 30, 50, 70, 90}
                 /\ processing_status'[s].progress = ProgressAt(pc[s])
                 /\ processing_status'[s].result_file = None
                 /\ processing_status[s].result_file = None
                 /\ processing_status'[s].github_url = processing_status[s].github_url
                 /\ processing_status'[s].error # processing_status[s].error
                 /\ processing_status'[s].message # processing_status[s].message]_vars

C37_Witness ==
    \E s, t \in Sessions :
        /\ processing_status[s].status = "error"
        /\ processing_status[s].progress = 70
        /\ processing_status[s].result_file = None
        /\ processing_status[t].status = "error"
        /\ processing_status[t].progress = 10

\* C38: the registry only grows: an id that has an entry keeps it, a
\* submission puts its entry under an id that had none and leaves the
\* entries of the other ids as they are, and a status request for an id
\* that has an entry is never answered 404.
C38_RegistryGrowsOnly ==
    [][/\ \A s \in Sessions : s \in DOMAIN processing_status'
       /\ (response' # response /\ response'.kind = "redirect" /\ response'.to = "processing")
             => /\ response'.session_id \notin Sessions
                /\ response'.session_id \in DOMAIN processing_status'
                /\ \A s \in Sessions : processing_status'[s] = processing_status[s]
                /\ \A s \in Sessions : pc'[s] = pc[s]
       /\ (response' # response /\ response'.kind = "json" /\ response'.code = 404)
             => response'.session_id \notin DOMAIN processing_status']_vars

C38_Witness ==
    /\ Sessions = SessionIds
    /\ response.kind = "json"
    /\ response.code = 200
    /\ response.session_id = 1
    /\ pc[1] = "done"
    /\ pc[2] = "start"

\* the merge went into _merge_with_video_speed_adjust: the video was probed
\* a second time
TimeScaleReached ==
    /\ Merged
    /\ Len(merger.trace) >= 3
    /\ merger.trace[3] = ProbeVideo

\* C39: when the speed adjust is entered and its probe of the video answers
\* as the first one did, the divisor Da is positive and speed_factor = Dv /
\* Da is below 1: the division does not fail, the test speed_factor > 2.0 is
\* false, and the direct mux replaces the setpts command exactly when
\* speed_factor < 0.5.
C39_SpeedFactorBelowOne ==
    ( /\ TimeScaleReached
      /\ merger.env.Dv2 = merger.env.Dv
      /\ merger.env.Dv2 >= 0 ) =>
        LET Dv == merger.env.Dv2
            Da == merger.env.Da IN
        /\ Da > 0
        /\ Dv < Da
        /\ ~(Dv > 2 * Da)
        /\ Len(merger.trace) >= 4
        /\ Cmds[4] \in {"speed", "simple"}
        /\ Cmds[4] = "simple" <=> 2 * Dv < Da
        /\ Cmds[4] = "speed" => merger.trace[4] = SpeedCmd(Dv, Da)

C39_Witness ==
    /\ TimeScaleReached
    /\ merger.env.Dv = 100 /\ merger.env.Da = 400 /\ merger.env.Dv2 = 100
    /\ Len(merger.trace) >= 4
    /\ merger.trace[4] = SimpleCmd
    /\ ~Ran("speed")

====
